---- MODULE Spec2Model ----
(***************************************************************************)
(* Result persistence layer of solarize: DataManager.save_modelchain_result *)
(* and DataManager.fetch_modelchain_result over a PostgreSQL connection      *)
(* (psycopg2), with the consumers of the fetched dict.                       *)
(***************************************************************************)
EXTENDS Integers, Sequences, FiniteSets, TLC

(***************************************************************************)
(* Bounds of the model.                                                      *)
(***************************************************************************)
\* largest number of physical arrays of a simulated system
MaxArrays == 2
\* number of timestamps in the index of every input table
NumTimes == 2
\* number of values the result_id sequence may hand out
MaxSaves == 2

Conns == {"c1", "c2"}
SeqConns == {"c1"}
Times == 1..NumTimes

(***************************************************************************)
(* Values.  Numbers are naturals; a float NaN and the SQL NULL / Python     *)
(* None are two distinct markers, never equal to a number.                   *)
(***************************************************************************)
NaN == -1
SqlNull == -2
IsMissing(v) == v = NaN \/ v = SqlNull

NoneValue == [kind |-> "None"]
Series(vals) == [kind |-> "Series", data |-> vals]
DataFrame(cols) == [kind |-> "DataFrame", cols |-> cols]
TupleOf(items) == [kind |-> "tuple", items |-> items]
IsTuple(x) == x.kind = "tuple"

(***************************************************************************)
(* The relational schema: one table per metric, with its value columns.     *)
(***************************************************************************)
TableNames ==
    <<"ac_aoi", "airmass", "cell_temperature", "dc_output", "diode_params",
      "total_irradiance", "solar_position", "weather">>
TableSet == {TableNames[i] : i \in 1..Len(TableNames)}

TableColumns(table_name) ==
    CASE table_name = "ac_aoi" -> <<"ac", "aoi", "aoi_modifier">>
      [] table_name = "airmass" -> <<"airmass_relative", "airmass_absolute">>
      [] table_name = "cell_temperature" -> <<"temperature">>
      [] table_name = "dc_output" ->
            <<"i_sc", "v_oc", "i_mp", "v_mp", "p_mp", "i_x", "i_xx">>
      [] table_name = "diode_params" -> <<"i_l", "i_o", "r_s", "r_sh", "nnsvth">>
      [] table_name = "total_irradiance" ->
            <<"poa_global", "poa_direct", "poa_diffuse", "poa_sky_diffuse",
              "poa_ground_diffuse">>
      [] table_name = "solar_position" ->
            <<"zenith", "azimuth", "elevation", "apparent_zenith",
              "apparent_elevation", "equation_of_time">>
      [] table_name = "weather" -> <<"ghi", "dni", "dhi", "temp_air", "wind_speed">>

SeqToSet(s) == {s[i] : i \in 1..Len(s)}
ColumnSet(table_name) == SeqToSet(TableColumns(table_name))

\* PostgreSQL folds the unquoted identifiers of the INSERT column list to
\* lower case: the pvlib diode columns I_L, I_o, R_s, R_sh, nNsVth are
\* stored under the lower-case names.
FoldIdentifier(col) ==
    CASE col = "I_L" -> "i_l"
      [] col = "I_o" -> "i_o"
      [] col = "R_s" -> "r_s"
      [] col = "R_sh" -> "r_sh"
      [] col = "nNsVth" -> "nnsvth"
      [] OTHER -> col

(***************************************************************************)
(* The fields of a ModelChainResult that save reads, in the order of the    *)
(* source, and the columns pvlib gives each of them.                         *)
(***************************************************************************)
Metrics ==
    <<"ac", "aoi", "airmass", "cell_temperature", "dc", "diode_params",
      "total_irrad", "solar_position", "weather">>
MetricSet == SeqToSet(Metrics)

MetricTable(metric) ==
    CASE metric = "ac" -> "ac_aoi"
      [] metric = "aoi" -> "ac_aoi"
      [] metric = "aoi_modifier" -> "ac_aoi"
      [] metric = "airmass" -> "airmass"
      [] metric = "cell_temperature" -> "cell_temperature"
      [] metric = "dc" -> "dc_output"
      [] metric = "diode_params" -> "diode_params"
      [] metric = "total_irrad" -> "total_irradiance"
      [] metric = "solar_position" -> "solar_position"
      [] metric = "weather" -> "weather"

InputColumns(metric) ==
    CASE metric = "diode_params" -> <<"I_L", "I_o", "R_s", "R_sh", "nNsVth">>
      [] metric = "ac" -> <<"ac">>
      [] metric = "aoi" -> <<"aoi">>
      [] metric = "aoi_modifier" -> <<"aoi_modifier">>
      [] OTHER -> TableColumns(MetricTable(metric))

\* metrics pvlib reports once per array (a tuple when the system has several)
PerArrayMetrics == {"aoi", "aoi_modifier", "cell_temperature", "dc",
                    "diode_params", "total_irrad"}

(***************************************************************************)
(* Input tables.  The value of column k of array i at time t is a number    *)
(* that tells arrays, columns and times apart; nan selects where the input  *)
(* carries NaN: nowhere, at the first position, or in every position.       *)
(***************************************************************************)
IndexOf(s, x) == CHOOSE j \in 1..Len(s) : s[j] = x

SampleValue(k, i, t, nan) ==
    IF nan = "all" \/ (nan = "first" /\ t = 1)
    THEN NaN
    ELSE 100 * (i + 1) + 10 * k + t

SampleColumn(k, i, nan) == [t \in Times |-> SampleValue(k, i, t, nan)]

SampleSeries(metric, i, nan) ==
    Series(SampleColumn(IndexOf(TableColumns(MetricTable(metric)),
                                InputColumns(metric)[1]), i, nan))

SampleFrame(metric, i, nan) ==
    DataFrame([c \in SeqToSet(InputColumns(metric)) |->
                  SampleColumn(IndexOf(InputColumns(metric), c), i, nan)])

\* a metric of a system of n arrays: one table, or a tuple of n tables
PerArray(n, item(_)) ==
    IF n = 1 THEN item(0) ELSE TupleOf([j \in 1..n |-> item(j - 1)])

SeriesMetrics == {"aoi", "aoi_modifier", "cell_temperature"}

MetricValue(metric, n, nan, dc_series) ==
    LET one(i) == IF metric \in SeriesMetrics \/ (metric = "dc" /\ dc_series)
                  THEN SampleSeries(metric, i, nan)
                  ELSE SampleFrame(metric, i, nan)
    IN IF metric \in PerArrayMetrics THEN PerArray(n, one) ELSE one(0)

AcShapes == {"Series", "DataFrame_p_mp", "DataFrame_ac", "DataFrame_other"}

AcValue(shape, nan) ==
    CASE shape = "Series" -> Series(SampleColumn(1, 0, nan))
      [] shape = "DataFrame_p_mp" -> DataFrame([c \in {"p_mp"} |-> SampleColumn(1, 0, nan)])
      [] shape = "DataFrame_ac" -> DataFrame([c \in {"ac"} |-> SampleColumn(1, 0, nan)])
      [] shape = "DataFrame_other" -> DataFrame([c \in {"v_mp"} |-> SampleColumn(1, 0, nan)])

\* a ModelChainResult of a system of n arrays in which the metrics of
\* `present` are set and the others are None
MkResult(n, shape, present, nan, dc_series) ==
    [m \in MetricSet \cup {"aoi_modifier"} |->
        IF m \notin present THEN NoneValue
        ELSE IF m = "ac" THEN AcValue(shape, nan)
        ELSE MetricValue(m, n, nan, dc_series)]
    @@ [arrays |-> n, albedo |-> "scalar", losses |-> 1,
        spectral_modifier |-> "None", tracking |-> "None"]

CoreMetrics == {"ac", "aoi", "aoi_modifier", "cell_temperature", "total_irrad"}
AllMetrics == MetricSet \cup {"aoi_modifier"}

(***************************************************************************)
(* array_names: the map from the stringified array index to a label.  The   *)
(* views build it from the user's arrays config and add MainArray at the    *)
(* index after the last array; a direct caller may pass any map.            *)
(***************************************************************************)
DefaultLabels == <<"Array_0", "Array_1", "Array_2", "Array_3">>
SortedNames ==
    <<"Array_0", "Array_1", "Array_2", "Array_3", "East", "MainArray", "West">>
NameRank(name) == IndexOf(SortedNames, name)
NullName == "NULL"

\* arrays_config entries without a "name": Array_<idx>
ViewDefaultNames(n) ==
    [i \in 0..n |-> IF i = n THEN "MainArray" ELSE DefaultLabels[i + 1]]
\* the user names the arrays in descending order of label
ViewReversedNames(n) ==
    [i \in 0..n |-> IF i = n THEN "MainArray" ELSE DefaultLabels[n - i]]
\* the user gives every array the same name
ViewSameNames(n) ==
    [i \in 0..n |-> IF i = n THEN "MainArray" ELSE "East"]
\* no arrays config uploaded: {"0": "MainArray"}
ViewNoConfigNames == [i \in {0} |-> "MainArray"]
\* a map without an entry for any index
EmptyNames == [i \in {} |-> "MainArray"]

\* array_names.get(str(idx))
ArrayNamesGet(array_names, idx) ==
    IF idx \in DOMAIN array_names THEN array_names[idx] ELSE NullName

(***************************************************************************)
(* insert_timeseries: what one call writes.                                  *)
(***************************************************************************)
\* Series.apply(lambda x: None if pd.isna(x) else ...): pandas infers the
\* dtype of the mapped column again.  A column whose values are all missing
\* stays a column of None; in a column that also holds numbers the None is
\* converted back to a float NaN.
CoerceColumn(col) ==
    IF \A t \in DOMAIN col : IsMissing(col[t])
    THEN [t \in DOMAIN col |-> SqlNull]
    ELSE [t \in DOMAIN col |-> IF IsMissing(col[t]) THEN NaN ELSE col[t]]

\* the tuples of records handed to execute_values for one DataFrame d
Records(d, table_name, result_id, array_name) ==
    {[result_id |-> result_id, utc_time |-> t, array_name |-> array_name,
      vals |-> [c \in ColumnSet(table_name) |->
                  IF \E ic \in DOMAIN d.cols : FoldIdentifier(ic) = c
                  THEN CoerceColumn(
                         d.cols[CHOOSE ic \in DOMAIN d.cols : FoldIdentifier(ic) = c])[t]
                  ELSE SqlNull]] : t \in Times}

\* a conflict target of (utc_time, array_name), without result_id
SameTimeAndArray(r1, r2) ==
    /\ r1.utc_time = r2.utc_time
    /\ r1.array_name = r2.array_name

\* the conflict target of the INSERT
SameKey(r1, r2) ==
    /\ r1.result_id = r2.result_id
    /\ r1.utc_time = r2.utc_time
    /\ r1.array_name = r2.array_name

\* ON CONFLICT (result_id, utc_time, array_name): the unique index treats two
\* NULLs as distinct, so a row whose array_name is NULL conflicts with nothing.
Conflicts(rec, rows) ==
    /\ rec.array_name # NullName
    /\ \E r \in rows : SameKey(r, rec)

\* INSERT ... VALUES %s ON CONFLICT ... DO NOTHING of `records` into a table
\* whose rows visible to the transaction are `visible`: the rows added.
\* copy tells physical rows with equal contents apart.
InsertOnConflictDoNothing(records, visible) ==
    {[result_id |-> rec.result_id, utc_time |-> rec.utc_time,
      array_name |-> rec.array_name, vals |-> rec.vals,
      copy |-> Cardinality({r \in visible : SameKey(r, rec)})] :
        rec \in {x \in records : ~Conflicts(x, visible)}}

\* the statement fails in the database when the INSERT names a column the
\* table does not have
UndefinedColumn(d, table_name) ==
    \E ic \in DOMAIN d.cols : FoldIdentifier(ic) \notin ColumnSet(table_name)

\* the metric tables have the columns result_id, utc_time, array_name and the
\* metric's columns, with a uniqueness constraint on the triple and no
\* NOT NULL on array_name
ArrayNameNullable == TRUE

NotNullViolation(array_name) == array_name = NullName /\ ~ArrayNameNullable

\* insert_timeseries(df, table_name) from array idx on; added are the rows this
\* call has inserted so far.  A Series has no .columns: the loop raises in
\* Python before anything of that array is sent.  db_error is the
\* environment's choice that the statement of this call fails.
RECURSIVE InsertArrays(_, _, _, _, _, _, _, _)
InsertArrays(dfs, idx, table_name, result_id, array_names, visible, added, db_error) ==
    IF idx > Len(dfs) THEN [added |-> added, raised |-> "none"]
    ELSE LET d == dfs[idx] IN
         IF d.kind = "None"
         THEN InsertArrays(dfs, idx + 1, table_name, result_id, array_names,
                           visible, added, db_error)
         ELSE IF d.kind # "DataFrame"
         THEN [added |-> added, raised |-> "python"]
         ELSE IF \/ db_error
                 \/ UndefinedColumn(d, table_name)
                 \/ NotNullViolation(ArrayNamesGet(array_names, idx - 1))
         THEN [added |-> added, raised |-> "database"]
         ELSE LET new == InsertOnConflictDoNothing(
                            Records(d, table_name, result_id,
                                    ArrayNamesGet(array_names, idx - 1)),
                            visible \cup added)
              IN InsertArrays(dfs, idx + 1, table_name, result_id, array_names,
                              visible, added \cup new, db_error)

insert_timeseries(df, table_name, result_id, array_names, visible, db_error) ==
    LET dfs == IF IsTuple(df) THEN df.items ELSE <<df>>
    IN InsertArrays(dfs, 1, table_name, result_id, array_names, visible, {}, db_error)

(***************************************************************************)
(* save_modelchain_result: the insert_timeseries calls it makes, in order.  *)
(***************************************************************************)
to_frame(series, name) == DataFrame([c \in {name} |-> series.data])
rename(frame, old, new) ==
    DataFrame([c \in (DOMAIN frame.cols \ {old}) \cup {new} |->
                  IF c = new THEN frame.cols[old] ELSE frame.cols[c]])
AsTuple(x) == IF IsTuple(x) THEN x.items ELSE <<x>>

\* result.ac: a Series, a DataFrame with p_mp, or a DataFrame with ac;
\* any other shape is not inserted
AcCall(ac) ==
    IF ac.kind = "Series" THEN <<[df |-> to_frame(ac, "ac"), table_name |-> "ac_aoi"]>>
    ELSE IF ac.kind = "DataFrame" /\ "p_mp" \in DOMAIN ac.cols
    THEN <<[df |-> rename(ac, "p_mp", "ac"), table_name |-> "ac_aoi"]>>
    ELSE IF ac.kind = "DataFrame" /\ "ac" \in DOMAIN ac.cols
    THEN <<[df |-> ac, table_name |-> "ac_aoi"]>>
    ELSE <<>>

\* result.aoi paired with result.aoi_modifier, array by array
AoiCall(aoi, aoi_modifier) ==
    LET aoi_tuple == AsTuple(aoi)
        mod_tuple == IF IsTuple(aoi_modifier) THEN aoi_modifier.items
                     ELSE [j \in 1..Len(aoi_tuple) |-> aoi_modifier]
        n == IF Len(aoi_tuple) < Len(mod_tuple) THEN Len(aoi_tuple) ELSE Len(mod_tuple)
        pair(j) ==
            DataFrame([c \in {"aoi", "aoi_modifier"} |->
                IF c = "aoi" THEN aoi_tuple[j].data
                ELSE IF mod_tuple[j].kind = "None"
                     THEN [t \in DOMAIN aoi_tuple[j].data |-> SqlNull]
                     ELSE mod_tuple[j].data])
    IN <<[df |-> TupleOf([j \in 1..n |-> pair(j)]), table_name |-> "ac_aoi"]>>

CellTemperatureCall(ct) ==
    LET items == AsTuple(ct)
    IN <<[df |-> TupleOf([j \in 1..Len(items) |-> to_frame(items[j], "temperature")]),
         table_name |-> "cell_temperature"]>>

PlainCall(x, table_name) == <<[df |-> TupleOf(AsTuple(x)), table_name |-> table_name]>>

Present(result, field) == result[field].kind # "None"

SaveCalls(result) ==
    (IF Present(result, "ac") THEN AcCall(result.ac) ELSE <<>>)
    \o (IF Present(result, "aoi") THEN AoiCall(result.aoi, result.aoi_modifier) ELSE <<>>)
    \o (IF Present(result, "airmass") THEN PlainCall(result.airmass, "airmass") ELSE <<>>)
    \o (IF Present(result, "cell_temperature")
        THEN CellTemperatureCall(result.cell_temperature) ELSE <<>>)
    \o (IF Present(result, "dc") THEN PlainCall(result.dc, "dc_output") ELSE <<>>)
    \o (IF Present(result, "diode_params")
        THEN PlainCall(result.diode_params, "diode_params") ELSE <<>>)
    \o (IF Present(result, "total_irrad")
        THEN PlainCall(result.total_irrad, "total_irradiance") ELSE <<>>)
    \o (IF Present(result, "solar_position")
        THEN PlainCall(result.solar_position, "solar_position") ELSE <<>>)
    \o (IF Present(result, "weather") THEN PlainCall(result.weather, "weather") ELSE <<>>)

(***************************************************************************)
(* fetch_timeseries: one metric table read back for a result_id.             *)
(***************************************************************************)
FetchKeys ==
    <<"ac_aoi", "airmass", "cell_temperature", "dc", "diode_params",
      "irradiance", "solar_position", "weather">>

\* pd.read_sql: a NULL of a column that holds numbers is read as NaN; a
\* column that is NULL in every row of the query is read as None objects
ReadValue(rows, col, v) ==
    IF v = SqlNull /\ \E r \in rows : r.vals[col] # SqlNull THEN NaN ELSE v

\* df.groupby("array_name") leaves out the rows whose key is null and
\* yields the groups in ascending order of the key
GroupKeys(rows) == {r.array_name : r \in rows} \ {NullName}

\* groups handed out in descending order of the key
KeysDescending(keys) ==
    CHOOSE s \in [1..Cardinality(keys) -> keys] :
        \A i, j \in 1..Cardinality(keys) : i < j => NameRank(s[i]) > NameRank(s[j])

SortedKeys(keys) ==
    CHOOSE s \in [1..Cardinality(keys) -> keys] :
        \A i, j \in 1..Cardinality(keys) : i < j => NameRank(s[i]) < NameRank(s[j])

\* SELECT *: the key columns and the metric's columns
SelectStar(table_name) == {"result_id", "utc_time", "array_name"} \cup ColumnSet(table_name)

\* df.set_index("utc_time") and g.drop(columns=["result_id", "array_name"])
GroupColumns(table_name) ==
    (SelectStar(table_name) \ {"utc_time"}) \ {"result_id", "array_name"}

\* ORDER BY utc_time, array_name: inside one array_name group the rows come
\* in ascending utc_time, and groupby keeps the order of the rows of a group
SortedTimes(times) ==
    CHOOSE s \in [1..Cardinality(times) -> times] :
        \A i, j \in 1..Cardinality(times) : i < j => s[i] < s[j]

\* one group: the columns, keyed by utc_time, and the index in row order
GroupFrame(rows, table_name, key) ==
    LET group == {r \in rows : r.array_name = key}
    IN [kind |-> "DataFrame",
        cols |-> [c \in GroupColumns(table_name) |->
                    [t \in {r.utc_time : r \in group} |->
                        ReadValue(rows, c, (CHOOSE r \in group : r.utc_time = t).vals[c])]],
        index |-> SortedTimes({r.utc_time : r \in group})]

fetch_timeseries(table_name, result_id, committed) ==
    LET rows == {r \in committed[table_name] : r.result_id = result_id}
        keys == GroupKeys(rows)
        order == SortedKeys(keys)
    IN IF rows = {} THEN [raised |-> "none", value |-> NoneValue]
       ELSE IF keys = {} THEN [raised |-> "IndexError", value |-> NoneValue]
       ELSE IF Cardinality(keys) > 1
       THEN [raised |-> "none",
             value |-> TupleOf([j \in 1..Cardinality(keys) |->
                                  GroupFrame(rows, table_name, order[j])])]
       ELSE [raised |-> "none", value |-> GroupFrame(rows, table_name, order[1])]

(***************************************************************************)
(* The metadata row.                                                         *)
(***************************************************************************)
Raw(v) == [enc |-> "raw", val |-> v]
JsonDumps(v) == [enc |-> "json", val |-> v]
NullColumn == [enc |-> "null", val |-> "None"]
PyValue(v) == [enc |-> "python", val |-> v]

MetadataRow(result, result_id) ==
    [result_id |-> result_id,
     albedo |-> IF result.albedo = "tuple" THEN JsonDumps(result.albedo)
                ELSE Raw(result.albedo),
     losses |-> result.losses,
     spectral_modifier |-> JsonDumps(result.spectral_modifier),
     tracking |-> IF result.tracking = "None" THEN NullColumn
                  ELSE JsonDumps(result.tracking)]

\* albedo, spectral_modifier and tracking are text columns: the driver hands
\* back the text that was stored.  From a json column it would hand back the
\* decoded value.
MetadataColumnsText == TRUE

\* row[3], row[5]: the column as the cursor returns it, with no json.loads
ReadMetadataColumn(col) ==
    IF ~MetadataColumnsText /\ col.enc = "json" THEN PyValue(col.val) ELSE col

\* json.loads(row[6]) if row[6] else None
DecodeTracking(col) == IF col.enc = "null" THEN PyValue("None") ELSE PyValue(col.val)

(***************************************************************************)
(* State.                                                                    *)
(***************************************************************************)
VARIABLES
    modelchain_results,  \* committed rows of the metadata table
    tables,              \* committed rows of every metric table
    result_id_seq,       \* last value handed out by the result_id sequence
    txn,                 \* per connection: psycopg2 transaction status
    pending_meta,        \* per connection: uncommitted metadata rows
    pending_rows,        \* per connection: uncommitted metric rows, per table
    pc,                  \* per connection: where the running call stands
    call,                \* per connection: locals of the running call
    ret,                 \* per connection: what the call hands to its caller
    failed_ids,          \* result_ids obtained by save calls that raised
    obtained,            \* per result_id: how many save calls obtained it
    requests,            \* the (result, array_names) pairs callers save in this run
    simulation_data,     \* the dict handed to the analyzers and the chart code
    report               \* what the last analyzer or normalizer call produced

vars == <<modelchain_results, tables, result_id_seq, txn, pending_meta,
          pending_rows, pc, call, ret, failed_ids, obtained, requests,
                   simulation_data, report>>

db_vars == <<modelchain_results, tables, pending_meta, pending_rows>>

store_vars == <<modelchain_results, tables, result_id_seq, txn, pending_meta,
                pending_rows, pc, call, ret, failed_ids, obtained, requests>>

\* no analyzer has been constructed and none has run
NoSimulation == [k \in {} |-> NoneValue]
NoReport == [op |-> "none"]

NoRows == [tn \in TableSet |-> {}]
NoOut == [k \in {} |-> NoneValue]
NoCall ==
    [op |-> "none", result |-> NoneValue, array_names |-> EmptyNames,
     result_id |-> 0, step |-> 0, written |-> {}, tables_read |-> 0, out |-> NoOut]
NoRet == [kind |-> "nothing"]
Raised(name) == [kind |-> "exception", name |-> name]

InitDatabase ==
    /\ modelchain_results = {}
    /\ tables = NoRows
    /\ result_id_seq = 0
    /\ txn = [c \in Conns |-> "idle"]
    /\ pending_meta = [c \in Conns |-> {}]
    /\ pending_rows = [c \in Conns |-> NoRows]
    /\ pc = [c \in Conns |-> "idle"]
    /\ call = [c \in Conns |-> NoCall]
    /\ ret = [c \in Conns |-> NoRet]
    /\ failed_ids = {}
    /\ obtained = [i \in 1..MaxSaves |-> 0]

\* rows a statement on connection c sees: committed or written by its own
\* open transaction
VisibleRows(c, table_name) == tables[table_name] \cup pending_rows[c][table_name]
\* a read that also sees what other connections have not committed yet
MetaReadUncommitted(c) ==
    modelchain_results \cup UNION {pending_meta[d] : d \in Conns}

VisibleMeta(c) == modelchain_results \cup pending_meta[c]

(***************************************************************************)
(* DatabaseConnection: psycopg2 opens a transaction at the first statement; *)
(* commit() of a transaction that a failed statement has aborted discards   *)
(* its writes, as rollback() and close() always do.  The writes of an       *)
(* aborted transaction can never become visible, so they leave pending_meta *)
(* and pending_rows at the failing statement.                                *)
(***************************************************************************)
CommittedMeta(c) ==
    IF txn[c] = "aborted" THEN modelchain_results
    ELSE modelchain_results \cup pending_meta[c]

\* a commit that puts the rows of the transaction in the place of the rows
\* of the table
RowsReplacedByCommit(c) ==
    IF txn[c] = "aborted" THEN tables
    ELSE [tn \in TableSet |->
            IF pending_rows[c][tn] = {} THEN tables[tn] ELSE pending_rows[c][tn]]

CommittedRows(c) ==
    IF txn[c] = "aborted" THEN tables
    ELSE [tn \in TableSet |-> tables[tn] \cup pending_rows[c][tn]]

commit(c) ==
    /\ modelchain_results' = CommittedMeta(c)
    /\ tables' = CommittedRows(c)
    /\ pending_meta' = [pending_meta EXCEPT ![c] = {}]
    /\ pending_rows' = [pending_rows EXCEPT ![c] = NoRows]
    /\ txn' = [txn EXCEPT ![c] = "idle"]

close(c) ==
    /\ pending_meta' = [pending_meta EXCEPT ![c] = {}]
    /\ pending_rows' = [pending_rows EXCEPT ![c] = NoRows]
    /\ txn' = [txn EXCEPT ![c] = "idle"]
    /\ UNCHANGED <<modelchain_results, tables>>

(***************************************************************************)
(* save_modelchain_result                                                    *)
(***************************************************************************)
\* a save that numbers its result one past the largest result_id it can see
MaxVisibleResultIdPlusOne(c) ==
    1 + Cardinality({i \in 1..MaxSaves : \E m \in VisibleMeta(c) : m.result_id >= i})

\* INSERT INTO modelchain_results ... RETURNING result_id; cur.fetchone()[0]
ReturningResultId(c) == result_id_seq + 1

\* a save on a connection in autocommit mode: the metadata row is committed
\* by its own INSERT, ahead of the metric rows
SaveInsertMetadataAutocommit(c, input) ==
    /\ pc[c] = "idle"
    /\ input \in requests
    /\ result_id_seq < MaxSaves
    /\ UNCHANGED <<requests, simulation_data, report>>
    /\ IF txn[c] = "aborted"
       THEN /\ pc' = [pc EXCEPT ![c] = "raised"]
            /\ ret' = [ret EXCEPT ![c] = Raised("InFailedSqlTransaction")]
            /\ call' = [call EXCEPT ![c].op = "save"]
            /\ UNCHANGED <<modelchain_results, tables, result_id_seq, txn,
                           pending_meta, pending_rows, failed_ids, obtained>>
       ELSE LET id == ReturningResultId(c) IN
            /\ result_id_seq' = result_id_seq + 1
            /\ obtained' = [obtained EXCEPT ![id] = @ + 1]
            /\ txn' = [txn EXCEPT ![c] = "idle"]
            /\ modelchain_results' =
                  modelchain_results \cup pending_meta[c] \cup {MetadataRow(input.result, id)}
            /\ tables' = [tn \in TableSet |-> tables[tn] \cup pending_rows[c][tn]]
            /\ pending_meta' = [pending_meta EXCEPT ![c] = {}]
            /\ pending_rows' = [pending_rows EXCEPT ![c] = NoRows]
            /\ call' = [call EXCEPT ![c] =
                  [NoCall EXCEPT !.op = "save",
                                 !.result = input.result,
                                 !.array_names = input.array_names,
                                 !.result_id = id,
                                 !.step = 1]]
            /\ pc' = [pc EXCEPT ![c] =
                  IF SaveCalls(input.result) = <<>> THEN "commit" ELSE "save"]
            /\ UNCHANGED <<ret, failed_ids>>

\* the metadata INSERT, first statement of the call
SaveInsertMetadata(c, input) ==
    /\ pc[c] = "idle"
    /\ input \in requests
    /\ result_id_seq < MaxSaves
    /\ UNCHANGED <<requests, simulation_data, report>>
    /\ IF txn[c] = "aborted"
       THEN /\ pc' = [pc EXCEPT ![c] = "raised"]
            /\ ret' = [ret EXCEPT ![c] = Raised("InFailedSqlTransaction")]
            /\ call' = [call EXCEPT ![c].op = "save"]
            /\ UNCHANGED <<modelchain_results, tables, result_id_seq, txn,
                           pending_meta, pending_rows, failed_ids, obtained>>
       ELSE LET id == ReturningResultId(c) IN
            /\ result_id_seq' = result_id_seq + 1
            /\ obtained' = [obtained EXCEPT ![id] = @ + 1]
            /\ txn' = [txn EXCEPT ![c] = "open"]
            /\ pending_meta' =
                  [pending_meta EXCEPT ![c] = @ \cup {MetadataRow(input.result, id)}]
            /\ call' = [call EXCEPT ![c] =
                  [NoCall EXCEPT !.op = "save",
                                 !.result = input.result,
                                 !.array_names = input.array_names,
                                 !.result_id = id,
                                 !.step = 1]]
            /\ pc' = [pc EXCEPT ![c] =
                  IF SaveCalls(input.result) = <<>> THEN "commit" ELSE "save"]
            /\ UNCHANGED <<modelchain_results, tables, pending_rows, ret, failed_ids>>

\* the next insert_timeseries call of the running save
SaveInsertTimeseries(c, db_error) ==
    /\ pc[c] = "save"
    /\ LET calls == SaveCalls(call[c].result)
           this == calls[call[c].step]
           done == insert_timeseries(this.df, this.table_name, call[c].result_id,
                                     call[c].array_names,
                                     VisibleRows(c, this.table_name), db_error)
           marked == {[table_name |-> this.table_name, row |-> r] : r \in done.added}
       IN /\ pending_rows' =
                IF done.raised = "database"
                THEN [pending_rows EXCEPT ![c] = NoRows]
                ELSE [pending_rows EXCEPT ![c][this.table_name] = @ \cup done.added]
          /\ pending_meta' =
                IF done.raised = "database"
                THEN [pending_meta EXCEPT ![c] = {}]
                ELSE pending_meta
          /\ IF done.raised = "none"
             THEN /\ call' = [call EXCEPT ![c].step = @ + 1,
                                          ![c].written = @ \cup marked]
                  /\ pc' = [pc EXCEPT ![c] =
                        IF call[c].step = Len(calls) THEN "commit" ELSE "save"]
                  /\ UNCHANGED <<txn, ret, failed_ids>>
             ELSE /\ call' = [call EXCEPT ![c].written = @ \cup marked]
                  /\ pc' = [pc EXCEPT ![c] = "raised"]
                  /\ ret' = [ret EXCEPT ![c] = Raised(done.raised)]
                  /\ txn' = [txn EXCEPT ![c] =
                        IF done.raised = "database" THEN "aborted" ELSE @]
                  /\ failed_ids' = failed_ids \cup {call[c].result_id}
    /\ UNCHANGED <<modelchain_results, tables, result_id_seq, obtained, requests,
                   simulation_data, report>>

\* a save that returns result_id inside the cursor block, before the commit
SaveReturnBeforeCommit(c) ==
    /\ pc[c] = "commit"
    /\ pc' = [pc EXCEPT ![c] = "return"]
    /\ ret' = [ret EXCEPT ![c] = [kind |-> "result_id", value |-> call[c].result_id]]
    /\ UNCHANGED <<modelchain_results, tables, result_id_seq, txn, pending_meta,
                   pending_rows, call, failed_ids, obtained, requests,
                   simulation_data, report>>

\* self.db.commit(); return result_id
SaveCommit(c) ==
    /\ pc[c] = "commit"
    /\ commit(c)
    /\ pc' = [pc EXCEPT ![c] = "return"]
    /\ ret' = [ret EXCEPT ![c] = [kind |-> "result_id", value |-> call[c].result_id]]
    /\ UNCHANGED <<result_id_seq, call, failed_ids, obtained, requests,
                   simulation_data, report>>

\* the caller takes the returned value or the exception
Return(c) ==
    /\ pc[c] \in {"return", "raised"}
    /\ pc' = [pc EXCEPT ![c] = "idle"]
    /\ call' = [call EXCEPT ![c] = NoCall]
    /\ ret' = [ret EXCEPT ![c] = NoRet]
    /\ UNCHANGED <<modelchain_results, tables, result_id_seq, txn, pending_meta,
                   pending_rows, failed_ids, obtained, requests,
                   simulation_data, report>>

(***************************************************************************)
(* Other uses of the connection between two calls.                           *)
(***************************************************************************)
\* get_or_create_location: one statement, then self.db.commit().  On an
\* aborted transaction the statement raises and nothing is committed.
get_or_create_location(c) ==
    /\ pc[c] = "idle"
    /\ IF txn[c] = "aborted"
       THEN UNCHANGED <<modelchain_results, tables, pending_meta, pending_rows, txn>>
       ELSE commit(c)
    /\ UNCHANGED <<result_id_seq, pc, call, ret, failed_ids, obtained, requests,
                   simulation_data, report>>

\* db.close() at the end of a request, and the DatabaseConnection() of the next
Reconnect(c) ==
    /\ pc[c] = "idle"
    /\ txn[c] # "idle"
    /\ close(c)
    /\ UNCHANGED <<result_id_seq, pc, call, ret, failed_ids, obtained, requests,
                   simulation_data, report>>

(***************************************************************************)
(* fetch_modelchain_result                                                   *)
(***************************************************************************)
\* SELECT ... FROM modelchain_results WHERE result_id = %s on the manager's
\* connection; return None when there is no row
FetchMetadata(c, result_id) ==
    /\ pc[c] = "idle"
    /\ IF txn[c] = "aborted"
       THEN /\ pc' = [pc EXCEPT ![c] = "raised"]
            /\ ret' = [ret EXCEPT ![c] = Raised("InFailedSqlTransaction")]
            /\ call' = [call EXCEPT ![c].op = "fetch", ![c].result_id = result_id]
            /\ UNCHANGED txn
       ELSE LET found == {m \in VisibleMeta(c) : m.result_id = result_id} IN
            /\ txn' = [txn EXCEPT ![c] = "open"]
            /\ IF found = {}
               THEN /\ pc' = [pc EXCEPT ![c] = "return"]
                    /\ ret' = [ret EXCEPT ![c] = NoneValue]
                    /\ call' = [call EXCEPT ![c].op = "fetch",
                                             ![c].result_id = result_id]
               ELSE LET row == CHOOSE m \in found : TRUE IN
                    /\ pc' = [pc EXCEPT ![c] = "fetch"]
                    /\ call' = [call EXCEPT ![c] =
                          [NoCall EXCEPT !.op = "fetch",
                                         !.result_id = result_id,
                                         !.step = 1,
                                         !.out = [k \in {"meta"} |->
                                            [albedo |-> ReadMetadataColumn(row.albedo),
                                             losses |-> row.losses,
                                             spectral_modifier |->
                                                ReadMetadataColumn(row.spectral_modifier),
                                             tracking |-> DecodeTracking(row.tracking)]]]]
                    /\ UNCHANGED ret
    /\ UNCHANGED <<modelchain_results, tables, result_id_seq, pending_meta,
                   pending_rows, failed_ids, obtained, requests,
                   simulation_data, report>>

\* result[key] = fetch_timeseries(table_name): each call reads through an
\* engine of its own, which sees committed rows only
FetchTimeseries(c) ==
    /\ pc[c] = "fetch"
    /\ LET k == call[c].step
           got == fetch_timeseries(TableNames[k], call[c].result_id, tables)
           out == (FetchKeys[k] :> got.value) @@ call[c].out
       IN IF got.raised # "none"
          THEN /\ pc' = [pc EXCEPT ![c] = "raised"]
               /\ ret' = [ret EXCEPT ![c] = Raised(got.raised)]
               /\ call' = [call EXCEPT ![c].tables_read = @ + 1]
          ELSE IF k < Len(TableNames)
          THEN /\ call' = [call EXCEPT ![c].step = k + 1, ![c].out = out,
                                       ![c].tables_read = @ + 1]
               /\ UNCHANGED <<pc, ret>>
          ELSE /\ call' = [call EXCEPT ![c].out = out, ![c].tables_read = @ + 1]
               /\ pc' = [pc EXCEPT ![c] = "return"]
               /\ ret' = [ret EXCEPT ![c] = [kind |-> "dict", value |-> out]]
    /\ UNCHANGED <<modelchain_results, tables, result_id_seq, txn, pending_meta,
                   pending_rows, failed_ids, obtained, requests,
                   simulation_data, report>>

(***************************************************************************)
(* What callers save.                                                        *)
(***************************************************************************)
Request(result, array_names) == [result |-> result, array_names |-> array_names]

\* requests of the runs with two connections: a single-array result as the
\* views save it, and a result whose dc is a Series (PVWatts DC model), on
\* which insert_timeseries raises after ac and aoi have been written
ConcurrentRequests ==
    {Request(MkResult(1, "Series", CoreMetrics, "none", FALSE), ViewNoConfigNames),
     Request(MkResult(MaxArrays, "Series", {"ac", "aoi", "aoi_modifier", "dc"},
                      "none", TRUE),
             ViewDefaultNames(MaxArrays))}

NameMaps(n) ==
    {ViewDefaultNames(n), ViewReversedNames(n), ViewSameNames(n), EmptyNames}
    \cup (IF n = 1 THEN {ViewNoConfigNames} ELSE {})

ResultKinds ==
    {<<"Series", CoreMetrics, "none">>,
     <<"DataFrame_p_mp", CoreMetrics, "first">>,
     <<"DataFrame_ac", AllMetrics, "none">>,
     <<"Series", CoreMetrics, "all">>,
     <<"DataFrame_other", CoreMetrics \ {"aoi_modifier"}, "none">>}

\* requests of the runs that save and fetch one result on one connection
RoundTripRequests ==
    {Request(MkResult(n, k[1], k[2], k[3], FALSE), names) :
        <<n, k, names>> \in
            {x \in (1..MaxArrays) \X ResultKinds \X
                   UNION {NameMaps(m) : m \in 1..MaxArrays} :
                x[3] \in NameMaps(x[1])}}

\* ids a caller asks for: every id handed out so far and the next one
ResultIds == 1..(IF result_id_seq < MaxSaves THEN result_id_seq + 1 ELSE MaxSaves)

Step(c) ==
    \/ \E input \in requests : SaveInsertMetadata(c, input)
    \/ \E db_error \in BOOLEAN : SaveInsertTimeseries(c, db_error)
    \/ SaveCommit(c)
    \/ Return(c)
    \/ get_or_create_location(c)
    \/ Reconnect(c)
    \/ \E result_id \in ResultIds : FetchMetadata(c, result_id)
    \/ FetchTimeseries(c)

\* two DataManagers, each on its own DatabaseConnection
Init ==
    /\ InitDatabase
    /\ requests = ConcurrentRequests
    /\ simulation_data = NoSimulation
    /\ report = NoReport

Next == \E c \in Conns : Step(c)

Spec == Init /\ [][Next]_vars

\* one DataManager saving and fetching one given result
InitRoundTrip ==
    /\ InitDatabase
    /\ requests \in {{r} : r \in RoundTripRequests}
    /\ simulation_data = NoSimulation
    /\ report = NoReport

NextRoundTrip == \E c \in SeqConns : Step(c)

SpecRoundTrip == InitRoundTrip /\ [][NextRoundTrip]_vars

(***************************************************************************)
(* Properties of save_modelchain_result.                                     *)
(***************************************************************************)
CommittedIds ==
    {m.result_id : m \in modelchain_results}
    \cup UNION {{r.result_id : r \in tables[tn]} : tn \in TableSet}

\* C1: no row written by a save call that raised after its metadata INSERT is
\* ever committed, neither at the failure nor by a later commit() on the
\* same connection.
C1_FailedSaveLeavesNothing == \A id \in failed_ids : id \notin CommittedIds

\* C4: a result_id is handed to the caller only when the metadata row and
\* every metric row the call wrote are committed and nothing of the call is
\* left uncommitted.
C4_ReturnedOnlyAfterCommit ==
    \A c \in Conns :
        (pc[c] = "return" /\ ret[c].kind = "result_id") =>
            /\ \E m \in modelchain_results : m.result_id = ret[c].value
            /\ \A w \in call[c].written : w.row \in tables[w.table_name]
            /\ pending_meta[c] = {}
            /\ pending_rows[c] = NoRows

C4_Witness ==
    \E c \in Conns :
        /\ pc[c] = "return"
        /\ ret[c].kind = "result_id"
        /\ Cardinality(call[c].written) > NumTimes

SavesRunning == {c \in Conns : call[c].op = "save" /\ call[c].result_id # 0}

FetchKey(metric) ==
    CASE metric \in {"ac", "aoi", "aoi_modifier"} -> "ac_aoi"
      [] metric = "dc" -> "dc"
      [] metric = "total_irrad" -> "irradiance"
      [] OTHER -> metric

\* the tables of a metric as the caller gave them, one per array
ExpectedFrames(result, metric) ==
    LET items == AsTuple(result[metric]) IN
    CASE metric = "ac" ->
            IF AcCall(result.ac) = <<>> THEN <<result.ac>> ELSE <<AcCall(result.ac)[1].df>>
      [] metric \in SeriesMetrics ->
            [j \in 1..Len(items) |->
                to_frame(items[j], IF metric = "cell_temperature"
                                   THEN "temperature" ELSE metric)]
      [] OTHER -> items

FetchedFrames(dict, metric) ==
    IF dict[FetchKey(metric)].kind = "None" THEN <<>>
    ELSE AsTuple(dict[FetchKey(metric)])

SameValue(v, w) == (IsMissing(v) /\ IsMissing(w)) \/ v = w

\* every column of the saved table is a column of the fetched one (under
\* the name PostgreSQL stores it by), over the same timestamps and with
\* equal values
ColumnsRoundTrip(saved, fetched) ==
    \A ic \in DOMAIN saved.cols :
        /\ FoldIdentifier(ic) \in DOMAIN fetched.cols
        /\ DOMAIN fetched.cols[FoldIdentifier(ic)] = DOMAIN saved.cols[ic]
        /\ \A t \in DOMAIN saved.cols[ic] :
              SameValue(saved.cols[ic][t], fetched.cols[FoldIdentifier(ic)][t])

\* connections whose fetch of a completely saved result has returned a dict
FetchedSaved ==
    {c \in Conns : /\ call[c].op = "fetch"
                   /\ pc[c] = "return"
                   /\ ret[c].kind = "dict"
                   /\ call[c].result_id \notin failed_ids}

\* C2: fetch(save(result, names)) returns, for every metric that was not
\* None, as many tables as arrays were saved, the i-th fetched table holding
\* the timestamps, columns and values of the i-th saved one.
C2_RoundTrip ==
    \A c \in FetchedSaved : \A req \in requests : \A metric \in AllMetrics :
        Present(req.result, metric) =>
            LET saved == ExpectedFrames(req.result, metric)
                fetched == FetchedFrames(ret[c].value, metric)
            IN /\ Len(fetched) = Len(saved)
               /\ \A j \in 1..Len(saved) : ColumnsRoundTrip(saved[j], fetched[j])

\* C3: every metric table holds at most one row per
\* (result_id, utc_time, array_name), whatever array_name was written.
C3_OneRowPerTriple ==
    \A tn \in TableSet : \A r1, r2 \in tables[tn] : SameKey(r1, r2) => r1 = r2

\* C6: a fetch for a result_id without committed metadata row returns None,
\* does not raise and reads no metric table.
C6_UnknownIdReturnsNone ==
    \A c \in Conns :
        (/\ call[c].op = "fetch"
         /\ pc[c] # "idle"
         /\ call[c].result_id \notin {m.result_id : m \in modelchain_results})
        => (/\ pc[c] = "return"
            /\ ret[c] = NoneValue
            /\ call[c].tables_read = 0)

\* fetches of a completely saved result that have returned or raised
FetchEndedSaved ==
    {c \in Conns : /\ call[c].op = "fetch"
                   /\ pc[c] \in {"return", "raised"}
                   /\ call[c].result_id \in {m.result_id : m \in modelchain_results}
                   /\ call[c].result_id \notin failed_ids}

GroupCount(table_name, result_id) ==
    Cardinality(GroupKeys({r \in tables[table_name] : r.result_id = result_id}))

\* C7: a metric whose rows lie in one array_name group is fetched as a single
\* table and one with several groups as a tuple of that many tables; a
\* result saved with one array comes back as single tables.
C7_SingleTableOrTuple ==
    \A c \in FetchEndedSaved :
        /\ pc[c] = "return" =>
              \A k \in 1..Len(TableNames) :
                 LET n == GroupCount(TableNames[k], call[c].result_id)
                     v == ret[c].value[FetchKeys[k]]
                 IN /\ n = 1 => v.kind = "DataFrame"
                    /\ n > 1 => (v.kind = "tuple" /\ Len(v.items) = n)
        /\ \A req \in requests :
              req.result.arrays = 1 =>
                  /\ pc[c] = "return"
                  /\ \A k \in 1..Len(FetchKeys) :
                        ret[c].value[FetchKeys[k]].kind \in {"None", "DataFrame"}

\* C8: a NaN of a saved table is stored as NULL, never as a NaN float, and
\* is fetched as a missing value; the other positions keep their values.
C8_NaNStoredAsNull ==
    /\ \A tn \in TableSet : \A r \in tables[tn] : \A col \in ColumnSet(tn) :
          r.vals[col] # NaN
    /\ \A c \in FetchedSaved : \A k \in 1..Len(FetchKeys) :
          LET v == ret[c].value[FetchKeys[k]] IN
          \A j \in 1..Len(IF v.kind = "None" THEN <<>> ELSE AsTuple(v)) :
             \A col \in DOMAIN AsTuple(v)[j].cols :
                \A t \in DOMAIN AsTuple(v)[j].cols[col] :
                   \E r \in tables[TableNames[k]] :
                      /\ r.result_id = call[c].result_id
                      /\ r.utc_time = t
                      /\ SameValue(r.vals[col], AsTuple(v)[j].cols[col][t])

(***************************************************************************)
(* fetch_modelchain_result as a read.                                        *)
(***************************************************************************)
\* what fetch_modelchain_result(result_id) on connection c yields in the
\* current state
FetchOutcome(c, result_id) ==
    IF txn[c] = "aborted" THEN Raised("InFailedSqlTransaction")
    ELSE LET found == {m \in VisibleMeta(c) : m.result_id = result_id} IN
         IF found = {} THEN NoneValue
         ELSE LET row == CHOOSE m \in found : TRUE
                  reads == [k \in 1..Len(TableNames) |->
                               fetch_timeseries(TableNames[k], result_id, tables)]
                  failing == {k \in 1..Len(TableNames) : reads[k].raised # "none"}
              IN IF failing # {}
                 THEN Raised(reads[CHOOSE k \in failing :
                                      \A j \in failing : k <= j].raised)
                 ELSE [kind |-> "dict",
                       value |->
                          [key \in {"meta"} \cup SeqToSet(FetchKeys) |->
                              IF key = "meta"
                              THEN [albedo |-> ReadMetadataColumn(row.albedo),
                                    losses |-> row.losses,
                                    spectral_modifier |->
                                       ReadMetadataColumn(row.spectral_modifier),
                                    tracking |-> DecodeTracking(row.tracking)]
                              ELSE reads[IndexOf(FetchKeys, key)].value]]

\* the step is one of a fetch call on c
FetchStep(c) == call'[c].op = "fetch" /\ (call'[c] # call[c] \/ pc'[c] # pc[c])

\* the step belongs to a save call
SaveStep == \E c \in Conns : call[c].op = "save" \/ call'[c].op = "save"

\* a fetch step writes nothing, and the fetch yields what the rows its
\* connection sees determine
FetchReadsOnly ==
    \A c \in Conns :
        FetchStep(c) =>
            /\ UNCHANGED <<modelchain_results, tables, result_id_seq,
                           pending_meta, pending_rows>>
            /\ pc'[c] \in {"return", "raised"} =>
                  \A result_id \in 1..MaxSaves :
                     call'[c].result_id = result_id =>
                        /\ ret'[c] = FetchOutcome(c, result_id)
                        /\ ret'[c] = FetchOutcome(c, result_id)'

\* no step outside a save call changes what a fetch of any result_id returns
FetchesAgreeBetweenSaves ==
    ~SaveStep =>
        \A c \in Conns : \A result_id \in 1..MaxSaves :
            (/\ FetchOutcome(c, result_id).kind # "exception"
             /\ FetchOutcome(c, result_id)'.kind # "exception")
            => FetchOutcome(c, result_id)' = FetchOutcome(c, result_id)

FetchStepsReadOnly == [][FetchReadsOnly]_vars

\* C9: fetch is read-only: fetch calls leave the metadata table and every
\* metric table unchanged, and two fetches of the same result_id with no save
\* in between return equal results.
C9_FetchReadOnlyAndRepeatable ==
    [][FetchReadsOnly /\ FetchesAgreeBetweenSaves]_vars

(***************************************************************************)
(* The consumers of the fetched dict.                                        *)
(***************************************************************************)
\* simulation_data[key][column] in Analyzer and SeasonalAnalyzer
AnalyzerReads ==
    {<<"ac_aoi", "ac">>, <<"total_irrad", "poa_global">>,
     <<"cell_temperature", "temperature">>}

\* d[key][column] completes when key is a key of d and d[key] is one table
\* with that column
IndexByColumn(d, key, column) ==
    /\ key \in DOMAIN d
    /\ d[key].kind = "DataFrame"
    /\ column \in DOMAIN d[key].cols

AnalyzersComplete(d) == \A rd \in AnalyzerReads : IndexByColumn(d, rd[1], rd[2])

\* C10: the dict fetch returns for a saved result can be handed unchanged to
\* the analyzers: every key they read is there and holds a single table.
C10_FetchedDictFeedsAnalyzers ==
    \A c \in FetchedSaved : AnalyzersComplete(ret[c].value)

(***************************************************************************)
(* Floats of the analyzers.  A computed float is a record: a finite number   *)
(* in a fixed-point unit, nan, inf or -inf.                                   *)
(***************************************************************************)
\* largest length of the series handed to the analyzers
MaxSamples == 2

\* percentages and scores are kept in tenths of a percent, the resolution of
\* the reports
PercentScale == 10

Num(v) == [k |-> "num", v |-> v]
FNaN == [k |-> "nan"]
PosInf == [k |-> "inf"]
NegInf == [k |-> "-inf"]
Zero == Num(0)
Hundred == Num(100 * PercentScale)

\* a < b on floats: every comparison with nan is False
Lt(a, b) ==
    /\ a.k # "nan" /\ b.k # "nan"
    /\ \/ a.k = "-inf" /\ b.k # "-inf"
       \/ b.k = "inf" /\ a.k # "inf"
       \/ a.k = "num" /\ b.k = "num" /\ a.v < b.v

\* Python's min(a, b) and max(a, b): the first argument unless the second is
\* strictly smaller (larger)
PyMin(a, b) == IF Lt(b, a) THEN b ELSE a
PyMax(a, b) == IF Lt(a, b) THEN b ELSE a

\* n / d of integers taken to the floor, for either sign of d # 0
FloorDiv(n, d) == IF d > 0 THEN n \div d ELSE (0 - n) \div (0 - d)

\* numpy float division n / d * scale: a zero divisor gives inf, -inf or nan
NumpyDiv(n, d, scale) ==
    IF d = 0
    THEN IF n > 0 THEN PosInf ELSE IF n < 0 THEN NegInf ELSE FNaN
    ELSE Num(FloorDiv(n * scale, d))

Percent(n, d) == NumpyDiv(n, d, 100 * PercentScale)

\* x * m for a float x and a positive integer m
Times2(x) == IF x.k = "num" THEN Num(2 * x.v) ELSE x

\* largest r with r * r <= x, by bisection
RECURSIVE ISqrtIn(_, _, _)
ISqrtIn(x, lo, hi) ==
    IF lo = hi THEN lo
    ELSE LET mid == (lo + hi + 1) \div 2 IN
         IF mid * mid <= x THEN ISqrtIn(x, mid, hi) ELSE ISqrtIn(x, lo, mid - 1)
ISqrt(x) == ISqrtIn(x, 0, 46340)

(***************************************************************************)
(* Reductions of pandas over a series (a sequence of values, missing ones    *)
(* skipped).                                                                 *)
(***************************************************************************)
RECURSIVE SumSkipNa(_)
SumSkipNa(values) ==
    IF values = <<>> THEN 0
    ELSE (IF IsMissing(Head(values)) THEN 0 ELSE Head(values)) + SumSkipNa(Tail(values))

PresentValues(values) == {values[i] : i \in {j \in DOMAIN values : ~IsMissing(values[j])}}

\* Series.max(): nan for a series without a value
SeriesMax(values) ==
    IF PresentValues(values) = {} THEN FNaN
    ELSE Num(CHOOSE m \in PresentValues(values) : \A v \in PresentValues(values) : v <= m)

SeriesMin(values) ==
    IF PresentValues(values) = {} THEN FNaN
    ELSE Num(CHOOSE m \in PresentValues(values) : \A v \in PresentValues(values) : m <= v)

\* series[mask]
RECURSIVE Masked(_, _)
Masked(values, mask) ==
    IF values = <<>> THEN <<>>
    ELSE (IF Head(mask) THEN <<Head(values)>> ELSE <<>>)
         \o Masked(Tail(values), Tail(mask))

\* series.groupby(series.index.month).sum(): the months of the index, each
\* with the sum of its values
MonthlySum(values, index) ==
    [m \in {index[i].month : i \in DOMAIN index} |->
        SumSkipNa(Masked(values, [i \in DOMAIN index |-> index[i].month = m]))]

(***************************************************************************)
(* Analyzer (analyzer.py).  ac_power is in W over hourly timestamps, so its  *)
(* sum is in Wh, a thousandth of the kWh the code computes.                  *)
(***************************************************************************)
\* a table with its DatetimeIndex, a sequence of [month, hour]
IndexedFrame(cols, index) == [kind |-> "DataFrame", cols |-> cols, index |-> index]

\* d[key][column]: the exception it raises, or "none"
LookupRaises(d, key, column) ==
    IF key \notin DOMAIN d THEN "KeyError"
    ELSE IF d[key].kind # "DataFrame" THEN "TypeError"
    ELSE IF column \notin DOMAIN d[key].cols THEN "KeyError"
    ELSE "none"

Completed(value) == [raised |-> "none", value |-> value]
Failed(name) == [raised |-> name]

\* round(n / d, ndigits) with scale = 10 ^ ndigits, d > 0: to the nearest,
\* ties to the even neighbour
RoundHalfEven(n, d, scale) ==
    LET q == FloorDiv(n * scale, d)
        twice == 2 * (n * scale - q * d)
    IN IF twice < d THEN q
       ELSE IF twice > d THEN q + 1
       ELSE IF q % 2 = 0 THEN q ELSE q + 1

\* the overall score before it is rounded is the sum of four quarters of
\* component scores: it is kept in quarters of a tenth of a percent
OverallUnits == 4 * PercentScale

\* round(overall_score, 1), in tenths
RoundedToOneDecimal(score) ==
    IF score.k = "num" THEN Num(RoundHalfEven(score.v, OverallUnits, PercentScale))
    ELSE score

\* score is the overall score as computed, not rounded
get_rating_description(score) ==
    IF ~Lt(score, Num(90 * OverallUnits)) /\ score.k # "nan" THEN "Excellent"
    ELSE IF ~Lt(score, Num(80 * OverallUnits)) /\ score.k # "nan" THEN "Very Good"
    ELSE IF ~Lt(score, Num(70 * OverallUnits)) /\ score.k # "nan" THEN "Good"
    ELSE IF ~Lt(score, Num(60 * OverallUnits)) /\ score.k # "nan" THEN "Fair"
    ELSE "Poor"

\* in Wh
calculate_annual_production(ac_power) == SumSkipNa(ac_power)

calculate_system_efficiency(ac_power, poa_global) ==
    IF SumSkipNa(poa_global) > 0
    THEN Percent(SumSkipNa(ac_power), SumSkipNa(poa_global))
    ELSE Zero

HoursPerYear == 8760

calculate_capacity_factor(ac_power) ==
    IF Lt(Zero, SeriesMax(ac_power))
    THEN Percent(calculate_annual_production(ac_power),
                 SeriesMax(ac_power).v * HoursPerYear)
    ELSE Zero

\* poa_global > 10
DaylightThreshold == 10
DaylightMask(poa_global) ==
    [i \in DOMAIN poa_global |->
        ~IsMissing(poa_global[i]) /\ poa_global[i] > DaylightThreshold]

\* temp_coeff = -0.004 = -1/250 and the reference temperature of 25 degrees:
\* 250 * temp_correction = 250 - (cell_temp - 25)
TempCoeffInverse == 250
ReferenceTemperature == 25
TheoreticalDc250(poa_global, cell_temp) ==
    [i \in DOMAIN poa_global |->
        IF IsMissing(poa_global[i]) \/ IsMissing(cell_temp[i]) THEN NaN
        ELSE poa_global[i] * (TempCoeffInverse - (cell_temp[i] - ReferenceTemperature))]

calculate_performance_ratio(ac_power, poa_global, cell_temp) ==
    LET daylight_mask == DaylightMask(poa_global)
        theoretical_dc == TheoreticalDc250(poa_global, cell_temp)
    IN IF \E i \in DOMAIN daylight_mask : daylight_mask[i]
       THEN LET pr == Percent(SumSkipNa(Masked(ac_power, daylight_mask)) * TempCoeffInverse,
                              SumSkipNa(Masked(theoretical_dc, daylight_mask)))
            IN PyMax(Zero, PyMin(Hundred, pr))
       ELSE Zero

\* 100 * std / mean of the monthly sums, with the sample standard deviation
\* (ddof = 1): nan for one month; the root is taken to a tenth
CoefficientOfVariationPercent(monthly) ==
    LET months == DOMAIN monthly
        k == Cardinality(months)
        total == SumSkipNa([i \in 1..k |->
                     monthly[CHOOSE m \in months :
                                Cardinality({x \in months : x < m}) = i - 1]])
        squares == SumSkipNa([i \in 1..k |->
                     LET x == monthly[CHOOSE m \in months :
                                Cardinality({y \in months : y < m}) = i - 1]
                     IN (k * x - total) * (k * x - total)])
    IN IF k < 2 THEN FNaN
       ELSE IF total = 0
       THEN (IF squares = 0 THEN FNaN ELSE PosInf)
       ELSE LET root == ISqrt((squares * 100) \div ((k - 1) * total * total))
            IN Num((IF total > 0 THEN 1 ELSE 0 - 1) * root * 10 * PercentScale)

\* 100 - x on floats
HundredMinus(x) ==
    CASE x.k = "num" -> Num(100 * PercentScale - x.v)
      [] x.k = "inf" -> NegInf
      [] x.k = "-inf" -> PosInf
      [] OTHER -> FNaN

calculate_seasonal_consistency(ac_power, index) ==
    LET monthly_energy == MonthlySum(ac_power, index) IN
    IF DOMAIN monthly_energy # {}
       /\ \E m \in DOMAIN monthly_energy : monthly_energy[m] > 0
    THEN PyMax(Zero, HundredMinus(CoefficientOfVariationPercent(monthly_energy)))
    ELSE Zero

\* 10 AM to 2 PM
PeakHoursMask(index) == [i \in DOMAIN index |-> index[i].hour >= 10 /\ index[i].hour <= 14]

calculate_peak_alignment(ac_power, index) ==
    IF SumSkipNa(ac_power) > 0
    THEN Percent(SumSkipNa(Masked(ac_power, PeakHoursMask(index))), SumSkipNa(ac_power))
    ELSE Zero

calculate_utilization_factor(ac_power, poa_global) ==
    LET daylight_hours == DaylightMask(poa_global)
        producing_hours ==
            {i \in DOMAIN ac_power :
                ~IsMissing(ac_power[i]) /\ ac_power[i] > 0 /\ daylight_hours[i]}
    IN IF \E i \in DOMAIN daylight_hours : daylight_hours[i]
       THEN Percent(Cardinality(producing_hours),
                    Cardinality({i \in DOMAIN daylight_hours : daylight_hours[i]}))
       ELSE Zero

\* the mean of four floats with equal weights of 0.25
\* a * 0.25 + b * 0.25 + c * 0.25 + d * 0.25, in quarters of a tenth
WeightedQuarter(a, b, c, d) ==
    IF \A x \in {a, b, c, d} : x.k = "num"
    THEN Num(a.v + b.v + c.v + d.v)
    ELSE FNaN

\* Analyzer(simulation_data).calculate_score()
calculate_score(d) ==
    IF LookupRaises(d, "ac_aoi", "ac") # "none"
    THEN Failed(LookupRaises(d, "ac_aoi", "ac"))
    ELSE IF LookupRaises(d, "total_irrad", "poa_global") # "none"
    THEN Failed(LookupRaises(d, "total_irrad", "poa_global"))
    ELSE IF LookupRaises(d, "cell_temperature", "temperature") # "none"
    THEN Failed(LookupRaises(d, "cell_temperature", "temperature"))
    ELSE
    LET ac_power == d["ac_aoi"].cols["ac"]
        index == d["ac_aoi"].index
        poa_global == d["total_irrad"].cols["poa_global"]
        cell_temp == d["cell_temperature"].cols["temperature"]
        system_efficiency == calculate_system_efficiency(ac_power, poa_global)
        performance_ratio == calculate_performance_ratio(ac_power, poa_global, cell_temp)
        seasonal_consistency == calculate_seasonal_consistency(ac_power, index)
        utilization_factor == calculate_utilization_factor(ac_power, poa_global)
        efficiency_score == PyMin(Hundred, Times2(system_efficiency))
        overall_score == WeightedQuarter(efficiency_score, seasonal_consistency,
                                         performance_ratio, utilization_factor)
    IN Completed(
        [overall_score |-> RoundedToOneDecimal(overall_score),
         rating |-> get_rating_description(overall_score),
         annual_energy_kwh |-> calculate_annual_production(ac_power),
         capacity_factor_percent |-> calculate_capacity_factor(ac_power),
         system_efficiency_percent |-> system_efficiency,
         performance_ratio_percent |-> performance_ratio,
         efficiency |-> efficiency_score,
         seasonal_consistency |-> seasonal_consistency,
         system_performance |-> performance_ratio,
         utilization |-> utilization_factor,
         peak_alignment_percent |-> calculate_peak_alignment(ac_power, index),
         utilization_factor_percent |-> utilization_factor])

(***************************************************************************)
(* SeasonalAnalyzer (seasonal_analyzer.py).                                  *)
(***************************************************************************)
\* the keys of a groupby result in ascending order
SortedMonths(monthly) ==
    [i \in 1..Cardinality(DOMAIN monthly) |->
        CHOOSE m \in DOMAIN monthly :
            Cardinality({x \in DOMAIN monthly : x < m}) = i - 1]

MonthlyValues(monthly) ==
    [i \in 1..Cardinality(DOMAIN monthly) |-> monthly[SortedMonths(monthly)[i]]]

\* Series.idxmax() / idxmin(): the first label holding the extreme value
IdxMax(monthly) ==
    CHOOSE m \in DOMAIN monthly :
        /\ \A x \in DOMAIN monthly : monthly[x] <= monthly[m]
        /\ \A x \in DOMAIN monthly : monthly[x] = monthly[m] => m <= x

IdxMin(monthly) ==
    CHOOSE m \in DOMAIN monthly :
        /\ \A x \in DOMAIN monthly : monthly[m] <= monthly[x]
        /\ \A x \in DOMAIN monthly : monthly[x] = monthly[m] => m <= x

get_best_worst_months(monthly_production) ==
    IF DOMAIN monthly_production = {} THEN [best_month |-> 0, worst_month |-> 0]
    ELSE [best_month |-> IdxMax(monthly_production),
          worst_month |-> IdxMin(monthly_production)]

\* idxmax() of a series without a value raises
PeakHourlyRaises(ac_power) == PresentValues(ac_power) = {}

get_peak_hourly_production(ac_power) ==
    [production |-> SeriesMax(ac_power),
     position |-> CHOOSE i \in DOMAIN ac_power :
                    /\ ~IsMissing(ac_power[i])
                    /\ \A j \in DOMAIN ac_power :
                          ~IsMissing(ac_power[j]) =>
                             /\ ac_power[j] <= ac_power[i]
                             /\ ac_power[j] = ac_power[i] => i <= j]

LowVariationBelow == 20
ModerateVariationBelow == 50

\* the band taken from round(variation_percent, 1), the value of the report
LevelOfRoundedVariation(spread, base) ==
    IF RoundHalfEven(spread, base, 100 * PercentScale) < LowVariationBelow * PercentScale
    THEN "low"
    ELSE IF RoundHalfEven(spread, base, 100 * PercentScale)
               < ModerateVariationBelow * PercentScale
    THEN "moderate"
    ELSE "high"

\* the band of variation_percent = spread / base * 100, before it is rounded
VariationLevel(spread, base) ==
    IF spread * 100 < LowVariationBelow * base THEN "low"
    ELSE IF spread * 100 < ModerateVariationBelow * base THEN "moderate"
    ELSE "high"

\* the band is taken from the unrounded variation_percent, the reported
\* value is round(variation_percent, 1)
calculate_seasonal_variation(monthly_production) ==
    IF DOMAIN monthly_production = {}
    THEN [variation_percent |-> Zero, description |-> "No Data"]
    ELSE
    LET max_production == monthly_production[IdxMax(monthly_production)]
        min_production == monthly_production[IdxMin(monthly_production)]
        spread == IF max_production > 0 THEN max_production - min_production ELSE 0
        base == IF max_production > 0 THEN max_production ELSE 1
        level == VariationLevel(spread, base)
    IN [variation_percent |-> Num(RoundHalfEven(spread, base, 100 * PercentScale)),
        description |-> CASE level = "low" -> "Low Variation"
                          [] level = "moderate" -> "Moderate Variation"
                          [] OTHER -> "High Variation",
        level |-> level,
        max_min_ratio |-> IF min_production > 0
                          THEN Num(RoundHalfEven(max_production, min_production, 100))
                          ELSE PosInf]

seasonal_mapping(month) ==
    CASE month \in {12, 1, 2} -> "Winter"
      [] month \in {3, 4, 5} -> "Spring"
      [] month \in {6, 7, 8} -> "Summer"
      [] OTHER -> "Fall"

SeasonalProduction(monthly_production) ==
    [season \in {seasonal_mapping(m) : m \in DOMAIN monthly_production} |->
        SumSkipNa([i \in 1..Cardinality(DOMAIN monthly_production) |->
            IF seasonal_mapping(SortedMonths(monthly_production)[i]) = season
            THEN MonthlyValues(monthly_production)[i] ELSE 0])]

get_seasonal_distribution(monthly_production) ==
    LET seasonal_production == SeasonalProduction(monthly_production)
        total_annual == SumSkipNa(MonthlyValues(monthly_production))
    IN IF total_annual > 0
       THEN [season \in DOMAIN seasonal_production |->
                Percent(seasonal_production[season], total_annual)]
       ELSE [season \in {} |-> Zero]

get_monthly_efficiency(ac_power, poa_global, index) ==
    LET monthly_ac == MonthlySum(ac_power, index)
        monthly_irradiance == MonthlySum(poa_global, index)
    IN [month \in {m \in DOMAIN monthly_ac : monthly_irradiance[m] > 0} |->
           Percent(monthly_ac[month], monthly_irradiance[month])]

calculate_productivity_metrics(monthly_production) ==
    LET annual_production == SumSkipNa(MonthlyValues(monthly_production))
        months == Cardinality(DOMAIN monthly_production)
    IN [annual_production_kwh |-> annual_production,
        average_monthly_kwh |->
            IF months > 0 THEN Num(FloorDiv(annual_production, months)) ELSE Zero,
        monthly_coefficient_variation |->
            IF months > 0 /\ annual_production > 0
            THEN CoefficientOfVariationPercent(monthly_production)
            ELSE Zero,
        production_months |->
            Cardinality({m \in DOMAIN monthly_production : monthly_production[m] > 0})]

\* SeasonalAnalyzer(simulation_data).generate_seasonal_report(); the texts
\* of 'insights' repeat seasonal_distribution and the level of the variation
generate_seasonal_report(d) ==
    IF LookupRaises(d, "ac_aoi", "ac") # "none"
    THEN Failed(LookupRaises(d, "ac_aoi", "ac"))
    ELSE
    LET ac_power == d["ac_aoi"].cols["ac"]
        index == d["ac_aoi"].index
        monthly_production == MonthlySum(ac_power, index)
    IN IF PeakHourlyRaises(ac_power) THEN Failed("ValueError")
       ELSE IF LookupRaises(d, "total_irrad", "poa_global") # "none"
       THEN Failed(LookupRaises(d, "total_irrad", "poa_global"))
       ELSE Completed(
        [best_worst |-> get_best_worst_months(monthly_production),
         peak_hourly |-> get_peak_hourly_production(ac_power),
         seasonal_variation |-> calculate_seasonal_variation(monthly_production),
         seasonal_distribution |-> get_seasonal_distribution(monthly_production),
         productivity_metrics |-> calculate_productivity_metrics(monthly_production),
         monthly_efficiency |->
            get_monthly_efficiency(ac_power, d["total_irrad"].cols["poa_global"], index),
         monthly_production |-> monthly_production])

(***************************************************************************)
(* aggregate_timeseries (utils.py) and FinancialAnalyzer                     *)
(* (financial_analysis.py).  Money is in units of 0.00005 dollars, energy in *)
(* Wh, growth factors in thousandths.                                        *)
(***************************************************************************)
\* the column of a table, or the series itself
ColumnOrSeries(d, column) ==
    IF d.kind = "DataFrame" THEN d.cols[column] ELSE d.data

\* pd.concat(series_list, axis=1).mean(axis=1): per timestamp the mean of the
\* values that are there
RowMean(series_list) ==
    [t \in DOMAIN series_list[1] |->
        LET present == {j \in DOMAIN series_list : ~IsMissing(series_list[j][t])}
        IN IF present = {} THEN NaN
           ELSE FloorDiv(SumSkipNa([j \in DOMAIN series_list |-> series_list[j][t]]),
                         Cardinality(present))]

\* what is neither a tuple nor a table is handed back as it is: for None,
\* self.ac_power.max() in FinancialAnalyzer.__init__ raises AttributeError
aggregate_timeseries(data, column) ==
    IF data.kind # "tuple"
    THEN IF data.kind = "DataFrame"
         THEN (IF column \in DOMAIN data.cols
               THEN Completed(data.cols[column]) ELSE Failed("KeyError"))
         ELSE IF data.kind = "Series" THEN Completed(data.data)
         ELSE Failed("AttributeError")
    ELSE IF \E j \in DOMAIN data.items :
               data.items[j].kind = "DataFrame" /\ column \notin DOMAIN data.items[j].cols
    THEN Failed("ValueError")
    ELSE IF \E j \in DOMAIN data.items : data.items[j].kind \notin {"DataFrame", "Series"}
    THEN Failed("TypeError")
    ELSE IF Len(data.items) = 1
    THEN Completed(ColumnOrSeries(data.items[1], column))
    ELSE Completed(RowMean([j \in DOMAIN data.items |->
                               ColumnOrSeries(data.items[j], column)]))

\* self.params, in the units of the model
system_cost_per_watt == 50000
electricity_rate == 3
escalation_rate == 1025
tax_credit_rate == 30
system_lifetime_years == 25
degradation_rate == 995
annual_operational_costs == 7000000
discount_rate == 1060

\* base ^ year in thousandths, for base in thousandths
RECURSIVE PowMilli(_, _)
PowMilli(base, year) ==
    IF year = 0 THEN 1000 ELSE (PowMilli(base, year - 1) * base) \div 1000

\* (1 + discount_rate) ^ year, (1 - degradation_rate) ^ year and
\* (1 + escalation_rate) ^ year for the years of the system's life
DiscountFactor == [year \in 0..system_lifetime_years |-> PowMilli(discount_rate, year)]
DegradationFactor == [year \in 0..system_lifetime_years |-> PowMilli(degradation_rate, year)]
EscalationFactor == [year \in 0..system_lifetime_years |-> PowMilli(escalation_rate, year)]

\* x * factor for a factor in thousandths
ScaleMilli(x, factor) == FloorDiv(x * (factor \div 10), 100)

\* x / (1 + discount_rate) ^ year
Discounted(x, year) == FloorDiv(x * 100, DiscountFactor[year] \div 10)

\* total_system_cost: nan when the series has no peak
total_system_cost(ac_power) ==
    IF SeriesMax(ac_power).k = "num"
    THEN Num(SeriesMax(ac_power).v * system_cost_per_watt) ELSE FNaN

\* total_system_cost * (1 - incentive_adjustment)
net_system_cost(ac_power) ==
    IF total_system_cost(ac_power).k = "num"
    THEN Num((total_system_cost(ac_power).v \div 100) * (100 - tax_credit_rate))
    ELSE FNaN

\* the hourly power clipped at 500 W before it is summed
AnnualEnergyOfClippedPower(ac_power) ==
    SumSkipNa([i \in DOMAIN ac_power |->
                  IF IsMissing(ac_power[i]) \/ ac_power[i] < 500
                  THEN ac_power[i] ELSE 500])

\* in Wh
annual_energy(ac_power) == SumSkipNa(ac_power)

annual_savings(ac_power) == annual_energy(ac_power) * electricity_rate

\* n / d * scale for |n / d| that may be large: the quotient first
QuotientScaled(n, d, scale) ==
    LET q == FloorDiv(n, d)
        r == IF d > 0 THEN n - q * d ELSE q * d - n
    IN q * scale + FloorDiv(r * scale, IF d > 0 THEN d ELSE 0 - d)

\* the payback as the quotient alone, without the test for savings
PaybackWithoutSavingsTest(ac_power) ==
    IF net_system_cost(ac_power).k = "num"
    THEN (IF annual_savings(ac_power) > 0
          THEN Num(QuotientScaled(net_system_cost(ac_power).v, annual_savings(ac_power), 10))
          ELSE NumpyDiv(net_system_cost(ac_power).v, annual_savings(ac_power), 10))
    ELSE FNaN

\* years, in tenths; inf if there are no savings, nan on a nan cost
calculate_simple_payback(ac_power) ==
    IF annual_savings(ac_power) > 0
    THEN IF net_system_cost(ac_power).k = "num"
         THEN Num(QuotientScaled(net_system_cost(ac_power).v, annual_savings(ac_power), 10))
         ELSE FNaN
    ELSE PosInf

year_net_cash_flow(ac_power, year) ==
    ScaleMilli(ScaleMilli(annual_savings(ac_power), DegradationFactor[year - 1]),
               EscalationFactor[year - 1])
    - annual_operational_costs

RECURSIVE DiscountedCashFlows(_, _)
DiscountedCashFlows(ac_power, year) ==
    IF year = 0 THEN 0
    ELSE Discounted(year_net_cash_flow(ac_power, year), year)
         + DiscountedCashFlows(ac_power, year - 1)

calculate_net_present_value(ac_power) ==
    IF net_system_cost(ac_power).k = "num"
    THEN Num(DiscountedCashFlows(ac_power, system_lifetime_years)
             - net_system_cost(ac_power).v)
    ELSE FNaN

\* annual_savings / net_system_cost * 100 of numpy floats: no
\* ZeroDivisionError is raised, a zero cost gives inf, -inf or nan
calculate_internal_rate_of_return(ac_power) ==
    IF net_system_cost(ac_power).k = "num"
    THEN Percent(annual_savings(ac_power), net_system_cost(ac_power).v)
    ELSE FNaN

RECURSIVE LifetimeCosts(_)
LifetimeCosts(year) ==
    IF year = 0 THEN 0
    ELSE Discounted(annual_operational_costs, year) + LifetimeCosts(year - 1)

LifetimeOperationalCosts == LifetimeCosts(system_lifetime_years)

RECURSIVE LifetimeEnergy(_, _)
LifetimeEnergy(ac_power, year) ==
    IF year = 0 THEN 0
    ELSE Discounted(ScaleMilli(annual_energy(ac_power), DegradationFactor[year - 1]),
                    year)
         + LifetimeEnergy(ac_power, year - 1)

\* (0.30 - lcoe) * 500 in tenths, lcoe = total_lifetime_cost /
\* total_lifetime_energy in dollars per kWh
LcoeScoreRaw(ac_power) ==
    LET total_lifetime_energy == LifetimeEnergy(ac_power, system_lifetime_years)
    IN IF total_lifetime_energy > 0
       THEN IF net_system_cost(ac_power).k = "num"
            THEN Num(1500 - QuotientScaled(
                        net_system_cost(ac_power).v + LifetimeOperationalCosts,
                        total_lifetime_energy, 250))
            ELSE FNaN
       ELSE PosInf

\* (20 - simple_payback) * 10, in tenths
PaybackScoreRaw(simple_payback) ==
    IF simple_payback.k = "num"
    THEN Num(200 * PercentScale - simple_payback.v * 10) ELSE simple_payback

_get_roi_rating(roi) ==
    IF roi.k = "nan" THEN "Poor"
    ELSE IF ~Lt(roi, Num(20 * PercentScale)) THEN "Excellent"
    ELSE IF ~Lt(roi, Num(15 * PercentScale)) THEN "Very Good"
    ELSE IF ~Lt(roi, Num(10 * PercentScale)) THEN "Good"
    ELSE IF ~Lt(roi, Num(5 * PercentScale)) THEN "Fair"
    ELSE "Poor"

\* the weighted sum 0.30, 0.25, 0.25, 0.20 of the component scores
WeightedFinancial(payback, npv, irr, lcoe) ==
    IF \A x \in {payback, npv, irr, lcoe} : x.k = "num"
    THEN Num((30 * payback.v + 25 * npv.v + 25 * irr.v + 20 * lcoe.v) \div 100)
    ELSE IF \E x \in {payback, npv, irr, lcoe} : x.k = "nan" THEN FNaN
    ELSE IF irr.k = "-inf" THEN NegInf ELSE PosInf

\* FinancialAnalyzer(simulation_data).calculate_score()
financial_calculate_score(d) ==
    IF "ac_aoi" \notin DOMAIN d THEN Failed("KeyError")
    ELSE IF aggregate_timeseries(d["ac_aoi"], "ac").raised # "none"
    THEN Failed(aggregate_timeseries(d["ac_aoi"], "ac").raised)
    ELSE
    LET ac_power == aggregate_timeseries(d["ac_aoi"], "ac").value
        simple_payback == calculate_simple_payback(ac_power)
        npv == calculate_net_present_value(ac_power)
        irr == calculate_internal_rate_of_return(ac_power)
        payback_score == IF simple_payback.k # "inf"
                         THEN PyMax(Zero, PyMin(Hundred, PaybackScoreRaw(simple_payback)))
                         ELSE Zero
        npv_score == IF Lt(Zero, npv)
                     THEN PyMax(Zero, PyMin(Hundred,
                             Percent(npv.v, total_system_cost(ac_power).v)))
                     ELSE Zero
        irr_score == PyMin(Hundred, Times2(irr))
        lcoe == LcoeScoreRaw(ac_power)
        lcoe_score == IF lcoe.k # "inf" THEN PyMax(Zero, PyMin(Hundred, lcoe)) ELSE Zero
    IN Completed(
        [overall_financial_score |->
            WeightedFinancial(payback_score, npv_score, irr_score, lcoe_score),
         roi_rating |-> _get_roi_rating(irr),
         simple_payback_years |-> simple_payback,
         net_present_value |-> npv,
         internal_rate_of_return_percent |-> irr,
         system_cost |-> total_system_cost(ac_power),
         annual_energy_production_kwh |->
            Num(RoundHalfEven(annual_energy(ac_power), 1000, 10)),
         payback_period_score |-> payback_score,
         npv_score |-> npv_score,
         irr_score |-> irr_score,
         lcoe_score |-> lcoe_score,
         cash_flow_analysis |->
            [year \in 1..5 |-> year_net_cash_flow(ac_power, year)]])

(***************************************************************************)
(* What the analyzers are given.                                             *)
(***************************************************************************)
\* AC power in W: night-time consumption, nothing, and three outputs
AcSamples == {0 - 5, 0, 5, 321, 401}
\* plane-of-array irradiance in W/m2: dark, below the daylight threshold, day
PoaSamples == {0, 5, 80}
TemperatureSamples == {25, 45}

\* the timestamps a series may hold, in ascending order
Stamps ==
    <<[month |-> 1, hour |-> 2], [month |-> 1, hour |-> 12],
      [month |-> 7, hour |-> 12], [month |-> 12, hour |-> 20]>>

Indexes(n) ==
    {[i \in 1..n |-> Stamps[pos[i]]] :
        pos \in {p \in [1..n -> 1..Len(Stamps)] : \A i \in 1..(n - 1) : p[i] < p[i + 1]}}

Constant(n, v) == [i \in 1..n |-> v]

\* the second array of a two-array system: the first one, 40 W stronger
SecondArray(ac) == [i \in DOMAIN ac |-> ac[i] + 40]

SimulationData(ac_aoi, poa, temperature, index) ==
    [ac_aoi |-> ac_aoi,
     total_irrad |-> IndexedFrame([poa_global |-> Constant(Len(index), poa)], index),
     cell_temperature |->
        IndexedFrame([temperature |-> Constant(Len(index), temperature)], index)]

SingleArrayInputs ==
    {SimulationData(IndexedFrame([ac |-> ac], index), poa, temperature, index) :
        <<ac, index, poa, temperature>> \in
            UNION {[1..n -> AcSamples] \X Indexes(n) \X PoaSamples \X TemperatureSamples :
                   n \in 0..MaxSamples}}

TwoArrayInputs ==
    {SimulationData(TupleOf(<<IndexedFrame([ac |-> ac], index),
                              IndexedFrame([ac |-> SecondArray(ac)], index)>>),
                    poa, temperature, index) :
        <<ac, index, poa, temperature>> \in
            UNION {[1..n -> AcSamples] \X Indexes(n) \X {80} \X {25} :
                   n \in 1..MaxSamples}}

\* a system at 1000 W/m2 whose overall score lies at the edge of a rating
\* band: 599 W or 600 W at noon in January and in July
BandEdgeInputs ==
    LET index == <<Stamps[2], Stamps[3]>> IN
    {SimulationData(IndexedFrame([ac |-> <<w, w>>], index), 1000, 25, index) :
        w \in {599, 600}}

AnalyzerInputs == SingleArrayInputs \cup TwoArrayInputs \cup BandEdgeInputs

(***************************************************************************)
(* Runs of the analyzers over one simulation_data.                           *)
(***************************************************************************)
AnalyzerCalculateScore ==
    /\ report' = [op |-> "Analyzer.calculate_score",
                  out |-> calculate_score(simulation_data)]
    /\ UNCHANGED <<store_vars, simulation_data>>

SeasonalGenerateReport ==
    /\ report' = [op |-> "SeasonalAnalyzer.generate_seasonal_report",
                  out |-> generate_seasonal_report(simulation_data)]
    /\ UNCHANGED <<store_vars, simulation_data>>

FinancialCalculateScore ==
    /\ report' = [op |-> "FinancialAnalyzer.calculate_score",
                  out |-> financial_calculate_score(simulation_data)]
    /\ UNCHANGED <<store_vars, simulation_data>>

\* every value of the AC power doubled, array by array
DoubledAc(ac_aoi) ==
    LET doubled(values) == [i \in DOMAIN values |->
                               IF IsMissing(values[i]) THEN values[i] ELSE 2 * values[i]]
        table(frame) == [frame EXCEPT !.cols["ac"] = doubled(@)]
    IN IF ac_aoi.kind = "tuple"
       THEN TupleOf([j \in DOMAIN ac_aoi.items |-> table(ac_aoi.items[j])])
       ELSE table(ac_aoi)

\* the AC power is as the simulation gave it: every value of the (first)
\* array is one of the samples, the second array 40 W above the first
AsSimulated(d) ==
    LET first == IF d["ac_aoi"].kind = "tuple" THEN d["ac_aoi"].items[1] ELSE d["ac_aoi"]
    IN /\ \A i \in DOMAIN first.cols["ac"] : first.cols["ac"][i] \in AcSamples
       /\ d["ac_aoi"].kind = "tuple" =>
             d["ac_aoi"].items[2].cols["ac"] = SecondArray(first.cols["ac"])

\* the same simulation with twice the AC power
DoubleAcPower ==
    /\ AsSimulated(simulation_data)
    /\ simulation_data' =
          [simulation_data EXCEPT !["ac_aoi"] = DoubledAc(simulation_data["ac_aoi"])]
    /\ report' = NoReport
    /\ UNCHANGED store_vars

InitAnalyzers ==
    /\ InitDatabase
    /\ requests = {}
    /\ simulation_data \in AnalyzerInputs
    /\ report = NoReport

NextAnalyzers ==
    \/ AnalyzerCalculateScore
    \/ SeasonalGenerateReport
    \/ FinancialCalculateScore
    \/ DoubleAcPower

SpecAnalyzers == InitAnalyzers /\ [][NextAnalyzers]_vars

(***************************************************************************)
(* Score boundedness.                                                        *)
(***************************************************************************)
InZeroToHundred(x) == x.k = "num" /\ 0 <= x.v /\ x.v <= Hundred.v

AnalyzerScoreFields ==
    {"overall_score", "capacity_factor_percent", "system_efficiency_percent",
     "performance_ratio_percent", "efficiency", "seasonal_consistency",
     "system_performance", "utilization", "peak_alignment_percent",
     "utilization_factor_percent"}

FinancialScoreFields ==
    {"overall_financial_score", "payback_period_score", "npv_score",
     "irr_score", "lcoe_score"}

Returned(op) == report.op = op /\ report.out.raised = "none"

\* C11: every score and percentage field the three analyzers return lies in
\* [0, 100], whatever AC, POA and temperature series they are given.
C11_ScoresWithinZeroAndHundred ==
    /\ Returned("Analyzer.calculate_score") =>
          \A f \in AnalyzerScoreFields : InZeroToHundred(report.out.value[f])
    /\ Returned("SeasonalAnalyzer.generate_seasonal_report") =>
          /\ InZeroToHundred(report.out.value.seasonal_variation.variation_percent)
          /\ \A season \in DOMAIN report.out.value.seasonal_distribution :
                InZeroToHundred(report.out.value.seasonal_distribution[season])
    /\ Returned("FinancialAnalyzer.calculate_score") =>
          \A f \in FinancialScoreFields : InZeroToHundred(report.out.value[f])

(***************************************************************************)
(* plots.normalize_pv_tuple: the system-level table the charts are drawn     *)
(* from.  Timestamps are numbers; idx lists the timestamps of the rows.      *)
(***************************************************************************)
NamedSeries(name, values, index) ==
    [kind |-> "Series", data |-> values, name |-> name, index |-> index]

\* Series.to_frame(): one column, named after the series (0 without a name)
SeriesToFrame(series) == IndexedFrame([c \in {series.name} |-> series.data], series.index)

IsFrameOrSeries(x) == x.kind \in {"Series", "DataFrame"}

Ascending(S) ==
    [i \in 1..Cardinality(S) |-> CHOOSE t \in S : Cardinality({x \in S : x < t}) = i - 1]

IndexLabels(frame) == {frame.index[i] : i \in DOMAIN frame.index}

\* the values the stacked frames hold for one column at one timestamp, one
\* entry per frame: NaN where the frame lacks the column or the timestamp
StackedValues(dfs, column, t) ==
    [j \in DOMAIN dfs |->
        IF column \in DOMAIN dfs[j].cols /\ t \in IndexLabels(dfs[j])
        THEN dfs[j].cols[column][CHOOSE i \in DOMAIN dfs[j].index : dfs[j].index[i] = t]
        ELSE NaN]

\* GroupBy.sum() in the place of GroupBy.mean()
SumInsteadOfMean(values) ==
    IF PresentValues(values) = {} THEN NaN ELSE SumSkipNa(values)

\* GroupBy.mean(): the mean of the values that are there, NaN without one
MeanSkipNa(values) ==
    IF PresentValues(values) = {} THEN NaN
    ELSE FloorDiv(SumSkipNa(values),
                  Cardinality({j \in DOMAIN values : ~IsMissing(values[j])}))

\* pd.concat(dfs, axis=0, keys=range(len(dfs))).groupby(level=1).mean()
Averaged(dfs) ==
    LET stamps == Ascending(UNION {IndexLabels(dfs[j]) : j \in DOMAIN dfs})
        columns == UNION {DOMAIN dfs[j].cols : j \in DOMAIN dfs}
    IN IndexedFrame(
          [column \in columns |->
              [i \in DOMAIN stamps |-> MeanSkipNa(StackedValues(dfs, column, stamps[i]))]],
          stamps)

\* a normalizer that passes over the None entries of a tuple, as
\* insert_timeseries does, where normalize_pv_tuple raises
NormalizeSkippingNone(data) ==
    IF data.kind = "tuple"
    THEN LET NotNone(x) == x.kind # "None"
             kept == SelectSeq(data.items, NotNone)
         IN IF \E j \in DOMAIN kept : ~IsFrameOrSeries(kept[j])
            THEN Failed("TypeError")
            ELSE IF kept = <<>>
            THEN Failed("ValueError")
            ELSE Completed(Averaged(
                   [j \in DOMAIN kept |->
                       IF kept[j].kind = "Series"
                       THEN SeriesToFrame(kept[j]) ELSE kept[j]]))
    ELSE IF data.kind = "Series" THEN Completed(SeriesToFrame(data))
    ELSE IF data.kind = "DataFrame" THEN Completed(data)
    ELSE Failed("TypeError")

normalize_pv_tuple(data) ==
    IF data.kind = "tuple"
    THEN IF \E j \in DOMAIN data.items : ~IsFrameOrSeries(data.items[j])
         THEN Failed("TypeError")
         ELSE IF data.items = <<>>
         THEN Failed("ValueError")
         ELSE Completed(Averaged(
                [j \in DOMAIN data.items |->
                    IF data.items[j].kind = "Series"
                    THEN SeriesToFrame(data.items[j]) ELSE data.items[j]]))
    ELSE IF data.kind = "Series" THEN Completed(SeriesToFrame(data))
    ELSE IF data.kind = "DataFrame" THEN Completed(data)
    ELSE Failed("TypeError")

(***************************************************************************)
(* What normalize_pv_tuple is given.                                         *)
(***************************************************************************)
\* sample values are multiples of 6, so that the mean of up to three of them
\* is a whole number
ValuePatterns(n) ==
    {Constant(n, 6), Constant(n, 12), [i \in 1..n |-> IF i = 1 THEN NaN ELSE 6]}

\* all the timestamps, all but the first, all but the last
IndexChoices ==
    {[i \in 1..MaxSamples |-> i],
     [i \in 1..(MaxSamples - 1) |-> i + 1],
     [i \in 1..(MaxSamples - 1) |-> i]}

SampleTables ==
    UNION {{IndexedFrame([ac |-> values], index),
            IndexedFrame([ac |-> values, aoi |-> Constant(Len(index), 12)], index)} :
           <<index, values>> \in
               UNION {{index} \X ValuePatterns(Len(index)) : index \in IndexChoices}}

SampleSeriesSet ==
    {NamedSeries(name, values, [i \in 1..MaxSamples |-> i]) :
        <<name, values>> \in {"ac", "0"} \X ValuePatterns(MaxSamples)}

TuplesOf(S) == UNION {[1..n -> S] : n \in 0..MaxArrays}

OtherValues == {NoneValue, [kind |-> "list"], [kind |-> "float"], [kind |-> "dict"]}

NormalizeInputs ==
    SampleTables \cup SampleSeriesSet \cup OtherValues
        \cup {TupleOf(items) : items \in TuplesOf(SampleTables \cup SampleSeriesSet)}
        \cup {TupleOf(items) :
                 items \in {x \in TuplesOf(SampleSeriesSet \cup OtherValues) :
                               \E j \in DOMAIN x : x[j] \in OtherValues}}

NormalizePvTuple ==
    /\ "ac_aoi" \in DOMAIN simulation_data
    /\ report' = [op |-> "normalize_pv_tuple",
                  out |-> normalize_pv_tuple(simulation_data["ac_aoi"])]
    /\ UNCHANGED <<store_vars, simulation_data>>

InitNormalize ==
    /\ InitDatabase
    /\ requests = {}
    /\ simulation_data \in {[ac_aoi |-> data] : data \in NormalizeInputs}
    /\ report = NoReport

NextNormalize == NormalizePvTuple

SpecNormalize == InitNormalize /\ [][NextNormalize]_vars

(***************************************************************************)
(* The normalizer's contract.                                                *)
(***************************************************************************)
Normalized == report.op = "normalize_pv_tuple"
NormalizerInput == simulation_data["ac_aoi"]

IsTupleOfTables(data) ==
    /\ data.kind = "tuple"
    /\ data.items # <<>>
    /\ \A j \in DOMAIN data.items : IsFrameOrSeries(data.items[j])

AsTable(x) == IF x.kind = "Series" THEN SeriesToFrame(x) ELSE x

\* the arrays that hold a value for the column at the timestamp
ArraysWithValue(items, column, t) ==
    {j \in DOMAIN items :
        /\ column \in DOMAIN AsTable(items[j]).cols
        /\ \E i \in DOMAIN items[j].index :
              /\ items[j].index[i] = t
              /\ ~IsMissing(AsTable(items[j]).cols[column][i])}

ValueIn(item, column, t) ==
    AsTable(item).cols[column][CHOOSE i \in DOMAIN item.index : item.index[i] = t]

CellIsMean(items, out, column, i) ==
    LET having == ArraysWithValue(items, column, out.index[i])
    IN IF having = {} THEN IsMissing(out.cols[column][i])
       ELSE /\ ~IsMissing(out.cols[column][i])
            /\ out.cols[column][i] * Cardinality(having) =
                  SumSkipNa([j \in DOMAIN items |->
                                IF j \in having
                                THEN ValueIn(items[j], column, out.index[i]) ELSE NaN])

\* C12: for a tuple of per-array tables normalize_pv_tuple returns one table
\* whose value for each column at each timestamp is the mean over the arrays
\* that hold a value there; a single table comes back with the same rows and
\* columns, a single series as a one-column table.
C12_NormalizeReturnsMean ==
    Normalized =>
        /\ IsTupleOfTables(NormalizerInput) =>
              /\ report.out.raised = "none"
              /\ DOMAIN report.out.value.cols =
                    UNION {DOMAIN AsTable(NormalizerInput.items[j]).cols :
                              j \in DOMAIN NormalizerInput.items}
              /\ IndexLabels(report.out.value) =
                    UNION {IndexLabels(NormalizerInput.items[j]) :
                              j \in DOMAIN NormalizerInput.items}
              /\ \A column \in DOMAIN report.out.value.cols :
                    \A i \in DOMAIN report.out.value.index :
                        CellIsMean(NormalizerInput.items, report.out.value, column, i)
        /\ NormalizerInput.kind = "DataFrame" =>
              /\ report.out.raised = "none"
              /\ report.out.value = NormalizerInput
        /\ NormalizerInput.kind = "Series" =>
              /\ report.out.raised = "none"
              /\ report.out.value.cols =
                    [c \in {NormalizerInput.name} |-> NormalizerInput.data]
              /\ report.out.value.index = NormalizerInput.index

\* two arrays hold different values at one timestamp, and at another only one
\* of them holds a value
C12_Witness ==
    /\ Normalized
    /\ IsTupleOfTables(NormalizerInput)
    /\ report.out.raised = "none"
    /\ \E i \in DOMAIN report.out.value.index :
          /\ Cardinality(ArraysWithValue(NormalizerInput.items, "ac",
                                         report.out.value.index[i])) = 2
          /\ report.out.value.cols["ac"][i] = 9
    /\ \E i \in DOMAIN report.out.value.index :
          Cardinality(ArraysWithValue(NormalizerInput.items, "ac",
                                      report.out.value.index[i])) = 1

Supported(data) ==
    \/ IsFrameOrSeries(data)
    \/ /\ data.kind = "tuple"
       /\ \A j \in DOMAIN data.items : IsFrameOrSeries(data.items[j])

\* C13: for every input that is not a table, a series or a tuple of tables
\* and series (None and a tuple holding None among them) normalize_pv_tuple
\* raises TypeError and returns nothing.
C13_UnsupportedInputRaisesTypeError ==
    (Normalized /\ ~Supported(NormalizerInput)) => report.out = Failed("TypeError")

\* a tuple holding a series and None has been refused
C13_Witness ==
    /\ Normalized
    /\ NormalizerInput.kind = "tuple"
    /\ \E j \in DOMAIN NormalizerInput.items : NormalizerInput.items[j] = NoneValue
    /\ \E j \in DOMAIN NormalizerInput.items : NormalizerInput.items[j].kind = "Series"
    /\ report.out = Failed("TypeError")

(***************************************************************************)
(* result.ac in the ac_aoi table.                                            *)
(***************************************************************************)
\* saves that have returned their result_id with result.ac set
ReturnedSavesWithAc ==
    {c \in Conns : /\ call[c].op = "save"
                   /\ pc[c] = "return"
                   /\ ret[c].kind = "result_id"
                   /\ Present(call[c].result, "ac")}

AcAoiRows(result_id) == {r \in tables["ac_aoi"] : r.result_id = result_id}

\* the values of a present result.ac, column by column
AcColumns(ac) ==
    IF ac.kind = "Series" THEN [c \in {"ac"} |-> ac.data]
    ELSE IF ac.kind = "DataFrame" THEN ac.cols
    ELSE [c \in {} |-> <<>>]

\* the column of result.ac that holds the AC power
PowerColumn(ac) ==
    IF "ac" \in DOMAIN AcColumns(ac) THEN "ac" ELSE "p_mp"

\* a series, a table with column ac and a table with column p_mp and no ac
\* are stored under the column ac
SupportedAcShapesPersisted ==
    \A c \in ReturnedSavesWithAc :
        LET columns == AcColumns(call[c].result.ac)
            power == PowerColumn(call[c].result.ac)
        IN power \in DOMAIN columns =>
              \A t \in DOMAIN columns[power] :
                 \E r \in AcAoiRows(ret[c].value) :
                    /\ r.utc_time = t
                    /\ SameValue(r.vals["ac"], columns[power][t])

\* every value of a present result.ac is in a row of ac_aoi
NoAcValueLeftOut ==
    \A c \in ReturnedSavesWithAc :
        LET columns == AcColumns(call[c].result.ac)
        IN \A column \in DOMAIN columns : \A t \in DOMAIN columns[column] :
              ~IsMissing(columns[column][t]) =>
                 \E r \in AcAoiRows(ret[c].value) :
                    /\ r.utc_time = t
                    /\ \E stored \in DOMAIN r.vals : r.vals[stored] = columns[column][t]

\* C14: a present result.ac is persisted into ac_aoi: a series, a table with
\* column ac and a table with column p_mp and no ac are stored under the
\* column ac, and no value of a present ac is left out of the table.
C14_PresentAcIsPersisted == SupportedAcShapesPersisted /\ NoAcValueLeftOut

(***************************************************************************)
(* Doubling the AC power.                                                    *)
(***************************************************************************)
Doubling ==
    /\ AsSimulated(simulation_data)
    /\ simulation_data'["ac_aoi"] = DoubledAc(simulation_data["ac_aoi"])

AnalyzerReadsAc(d) == LookupRaises(d, "ac_aoi", "ac") = "none"

FinancialAcPower(d) == aggregate_timeseries(d["ac_aoi"], "ac").value

ProductionDoubles ==
    Doubling =>
        /\ AnalyzerReadsAc(simulation_data) =>
              /\ AnalyzerReadsAc(simulation_data')
              /\ calculate_annual_production(simulation_data'["ac_aoi"].cols["ac"]) =
                    2 * calculate_annual_production(simulation_data["ac_aoi"].cols["ac"])
        /\ /\ aggregate_timeseries(simulation_data["ac_aoi"], "ac").raised = "none"
           /\ aggregate_timeseries(simulation_data'["ac_aoi"], "ac").raised = "none"
           /\ annual_energy(FinancialAcPower(simulation_data')) =
                 2 * annual_energy(FinancialAcPower(simulation_data))

ReportedEnergyDoubles ==
    Doubling =>
        financial_calculate_score(simulation_data').value.annual_energy_production_kwh.v =
           2 * financial_calculate_score(simulation_data).value.annual_energy_production_kwh.v

FinancialScored == report.op = "FinancialAnalyzer.calculate_score"

ZeroAnnualEnergy ==
    /\ aggregate_timeseries(simulation_data["ac_aoi"], "ac").raised = "none"
    /\ annual_energy(FinancialAcPower(simulation_data)) = 0

\* C16: on an AC series whose annual energy is 0, FinancialAnalyzer's
\* calculate_score raises nothing, reports simple_payback_years = inf and
\* payback_period_score = 0, and npv_score, irr_score and lcoe_score are
\* numbers in [0, 100].
C16_ZeroEnergyScores ==
    (FinancialScored /\ ZeroAnnualEnergy) =>
        /\ report.out.raised = "none"
        /\ report.out.value.simple_payback_years = PosInf
        /\ report.out.value.payback_period_score = Zero
        /\ \A f \in {"npv_score", "irr_score", "lcoe_score"} :
              InZeroToHundred(report.out.value[f])

\* scored: a series of +5 W and -5 W, whose energy is 0 and whose peak is not
C16_Witness ==
    /\ FinancialScored
    /\ ZeroAnnualEnergy
    /\ simulation_data["ac_aoi"].kind = "DataFrame"
    /\ \E i \in DOMAIN simulation_data["ac_aoi"].cols["ac"] :
          simulation_data["ac_aoi"].cols["ac"][i] = 5

(***************************************************************************)
(* Empty and degenerate input.                                               *)
(***************************************************************************)
\* simulation_data holds one table per key, as for a system of one array
SingleTables ==
    /\ LookupRaises(simulation_data, "ac_aoi", "ac") = "none"
    /\ LookupRaises(simulation_data, "total_irrad", "poa_global") = "none"
    /\ LookupRaises(simulation_data, "cell_temperature", "temperature") = "none"

AcPower == simulation_data["ac_aoi"].cols["ac"]
PoaGlobal == simulation_data["total_irrad"].cols["poa_global"]

\* Analyzer.calculate_score raises nothing, and a ratio over a zero
\* denominator is reported as 0
AnalyzerHandlesDegenerateInput ==
    (report.op = "Analyzer.calculate_score" /\ SingleTables) =>
        /\ report.out.raised = "none"
        /\ SumSkipNa(PoaGlobal) = 0 =>
              /\ report.out.value.system_efficiency_percent = Zero
              /\ report.out.value.performance_ratio_percent = Zero
              /\ report.out.value.utilization_factor_percent = Zero
        /\ SumSkipNa(AcPower) = 0 =>
              /\ report.out.value.peak_alignment_percent = Zero
        /\ (\A i \in DOMAIN AcPower : AcPower[i] = 0) =>
              /\ report.out.value.capacity_factor_percent = Zero
              /\ report.out.value.seasonal_consistency = Zero

\* SeasonalAnalyzer.generate_seasonal_report raises nothing, and the
\* variation over a zero maximum is reported as 0
SeasonalReportHandlesDegenerateInput ==
    (report.op = "SeasonalAnalyzer.generate_seasonal_report" /\ SingleTables) =>
        /\ report.out.raised = "none"
        /\ (\A i \in DOMAIN AcPower : AcPower[i] = 0) =>
              report.out.value.seasonal_variation.variation_percent = Zero

\* C17: Analyzer.calculate_score and SeasonalAnalyzer.generate_seasonal_report
\* raise nothing on an empty AC series, an all-zero AC series or an all-zero
\* POA series, and report 0 for every ratio whose denominator is zero: an
\* all-zero POA series gives system_efficiency 0 and performance_ratio 0.
C17_NoExceptionOnDegenerateInput ==
    AnalyzerHandlesDegenerateInput /\ SeasonalReportHandlesDegenerateInput

(***************************************************************************)
(* The seasonal variation of the report.                                     *)
(***************************************************************************)
SeasonalReported ==
    /\ report.op = "SeasonalAnalyzer.generate_seasonal_report"
    /\ report.out.raised = "none"

MonthlyTotals == MonthlySum(AcPower, simulation_data["ac_aoi"].index)
MaxTotal == CHOOSE x \in {MonthlyTotals[m] : m \in DOMAIN MonthlyTotals} :
                \A m \in DOMAIN MonthlyTotals : MonthlyTotals[m] <= x
MinTotal == CHOOSE x \in {MonthlyTotals[m] : m \in DOMAIN MonthlyTotals} :
                \A m \in DOMAIN MonthlyTotals : x <= MonthlyTotals[m]
Variation == report.out.value.seasonal_variation

\* the reported variation_percent is (max - min) / max x 100 to the nearest
\* tenth, and 0 when the maximum is not positive
VariationPercentReported ==
    IF MaxTotal > 0
    THEN LET error == Variation.variation_percent.v * MaxTotal
                         - (MaxTotal - MinTotal) * 100 * PercentScale
         IN 2 * error <= MaxTotal /\ 0 - MaxTotal <= 2 * error
    ELSE Variation.variation_percent = Zero

\* the band of the exact (max - min) / max x 100
BandOfVariation ==
    IF MaxTotal <= 0 \/ (MaxTotal - MinTotal) * 100 < LowVariationBelow * MaxTotal
    THEN "Low Variation"
    ELSE IF (MaxTotal - MinTotal) * 100 < ModerateVariationBelow * MaxTotal
    THEN "Moderate Variation"
    ELSE "High Variation"

\* the band of the variation_percent of the report
BandOfReportedValue ==
    IF Variation.variation_percent.v < LowVariationBelow * PercentScale
    THEN "Low Variation"
    ELSE IF Variation.variation_percent.v < ModerateVariationBelow * PercentScale
    THEN "Moderate Variation"
    ELSE "High Variation"

SeasonalVariationAsComputed ==
    SeasonalReported =>
        /\ VariationPercentReported
        /\ Variation.description = BandOfVariation
        /\ MinTotal = 0 => Variation.max_min_ratio = PosInf
        /\ MaxTotal = MinTotal =>
              /\ Variation.variation_percent = Zero
              /\ Variation.description = "Low Variation"

\* C18 (as the code has it): variation_percent is (max - min) / max x 100
\* over the monthly totals, 0 when max is 0, reported to one decimal; the
\* description is Low Variation below 20, Moderate Variation below 50 and High
\* Variation otherwise, decided on the value before it is rounded;
\* max_min_ratio is inf when the minimum is 0; equal totals give 0 and Low
\* Variation.
C18_SeasonalVariationBands == SeasonalVariationAsComputed

\* monthly totals of 401 Wh and 321 Wh: 19.95 percent, reported as 20.0
C18_Witness ==
    /\ SeasonalReported
    /\ MaxTotal = 401
    /\ MinTotal = 321
    /\ Variation.variation_percent = Num(20 * PercentScale)
    /\ Variation.description = "Low Variation"

\* C18 (as stated): the same, with the band decided on the value that is
\* reported.
C18_BandDecidedOnReportedValue ==
    /\ SeasonalVariationAsComputed
    /\ SeasonalReported => Variation.description = BandOfReportedValue

(***************************************************************************)
(* The order of the statements of one save_modelchain_result call.           *)
(***************************************************************************)
InSave(c) == call[c].op = "save" /\ pc[c] \in {"save", "commit"}

\* the step is a metric INSERT of connection c
MetricInsert(c) ==
    \E tn \in TableSet : ~(pending_rows'[c][tn] \subseteq pending_rows[c][tn])

MetricRowsAdded(c) ==
    UNION {pending_rows'[c][tn] \ pending_rows[c][tn] : tn \in TableSet}

\* the step commits the transaction of connection c inside a save
SaveCommits(c) ==
    /\ InSave(c)
    /\ \E m \in modelchain_results' \ modelchain_results :
          m.result_id = call[c].result_id

OrderWithinSave(c) ==
    /\ (InSave(c) /\ MetricInsert(c)) =>
          /\ \E m \in pending_meta[c] : m.result_id = call[c].result_id
          /\ txn[c] = "open"
          /\ \A r \in MetricRowsAdded(c) : r.result_id = call[c].result_id
    /\ SaveCommits(c) =>
          /\ pc[c] = "commit"
          /\ call[c].step = Len(SaveCalls(call[c].result)) + 1
          /\ \A w \in call[c].written : w.row \in tables'[w.table_name]
          /\ pending_meta'[c] = {}
          /\ pending_rows'[c] = NoRows
          /\ pc'[c] = "return"
    /\ (call[c].op = "save" /\ pc[c] # "return" /\ pc'[c] = "return") => SaveCommits(c)

\* C19: within one save call the metadata INSERT comes before every metric
\* INSERT, every metric row carries the result_id that INSERT returned, and
\* all of them are in one transaction, committed once, after the last metric
\* insert.
C19_MetadataFirstOneCommitLast == [][\A c \in Conns : OrderWithinSave(c)]_vars

\* a save has returned after two or more insert_timeseries calls
C19_Witness ==
    \E c \in Conns :
        /\ call[c].op = "save"
        /\ pc[c] = "return"
        /\ call[c].step > 2
        /\ \A w \in call[c].written : w.row.result_id = ret[c].value

(***************************************************************************)
(* Two saves on two connections.                                             *)
(***************************************************************************)
\* the rows a save of the calls adds to empty tables
RECURSIVE RowsOfCalls(_, _, _, _, _)
RowsOfCalls(calls, k, result_id, array_names, rows) ==
    IF k > Len(calls) THEN rows
    ELSE RowsOfCalls(calls, k + 1, result_id, array_names,
            [rows EXCEPT ![calls[k].table_name] =
                @ \cup insert_timeseries(calls[k].df, calls[k].table_name, result_id,
                                         array_names, rows[calls[k].table_name],
                                         FALSE).added])

SavedAlone(result, array_names, result_id) ==
    RowsOfCalls(SaveCalls(result), 1, result_id, array_names, NoRows)

ReturnedSaves ==
    {c \in Conns : call[c].op = "save" /\ pc[c] = "return" /\ ret[c].kind = "result_id"}

\* C20: two saves running on separate connections never conflict: a call
\* that completes has its rows committed under its own result_id, the same
\* rows it stores when it runs alone, and no row of one call meets a row of
\* the other in the ON CONFLICT key.
C20_ConcurrentSavesDoNotConflict ==
    /\ \A c \in ReturnedSaves : \A tn \in TableSet :
          {r \in tables[tn] : r.result_id = ret[c].value} =
             SavedAlone(call[c].result, call[c].array_names, ret[c].value)[tn]
    /\ \A c \in Conns : \A d \in Conns \ {c} : \A tn \in TableSet :
          \A r \in pending_rows[c][tn] :
             \A other \in pending_rows[d][tn] \cup tables[tn] :
                SameKey(r, other) => other.result_id = call[c].result_id

\* both connections have completed a save that ran while the other's was open
C20_Witness ==
    /\ \A c \in Conns : c \in ReturnedSaves
    /\ \A c \in Conns : call[c].written # {}
    /\ \E c \in Conns : \E d \in Conns \ {c} : ret[c].value < ret[d].value

(***************************************************************************)
(* A fetch next to the save of the result it asks for.                       *)
(***************************************************************************)
\* fetches that have returned while the save of their result_id, on another
\* connection, has not yet been taken by its caller
FetchBesideSave ==
    {p \in Conns \X Conns :
        /\ p[1] # p[2]
        /\ call[p[1]].op = "fetch"
        /\ pc[p[1]] = "return"
        /\ call[p[2]].op = "save"
        /\ call[p[2]].result_id = call[p[1]].result_id}

WrittenBy(c) ==
    [tn \in TableSet |-> {w.row : w \in {x \in call[c].written : x.table_name = tn}}]

\* C21: a fetch that runs next to the save of the same result_id on another
\* connection returns None or the complete result: a returned dict holds,
\* for every metric table, all rows the save call has written, and the save
\* has committed.
C21_FetchSeesNothingOrAll ==
    \A p \in FetchBesideSave :
        \/ ret[p[1]] = NoneValue
        \/ /\ ret[p[1]].kind = "dict"
           /\ pc[p[2]] = "return"
           /\ \A k \in 1..Len(TableNames) :
                 ret[p[1]].value[FetchKeys[k]] =
                    fetch_timeseries(TableNames[k], call[p[2]].result_id,
                                     WrittenBy(p[2])).value

\* a fetch has returned a dict with metric tables before the caller of the
\* save of that result has taken the result_id
C21_Witness ==
    \E p \in FetchBesideSave :
        /\ ret[p[1]].kind = "dict"
        /\ ret[p[1]].value["ac_aoi"].kind # "None"
        /\ ret[p[1]].value["cell_temperature"].kind # "None"

(***************************************************************************)
(* The array_name partitions of a metric saved as a tuple.                   *)
(***************************************************************************)
\* the array_names maps fixed_mount_system_view builds for n configured arrays
ViewNames(n) == {ViewDefaultNames(n), ViewReversedNames(n), ViewSameNames(n)}

\* metrics that have a table of their own and are saved as a tuple
TupleMetrics(result) ==
    {m \in PerArrayMetrics \ {"aoi", "aoi_modifier"} :
        Present(result, m) /\ IsTuple(result[m])}

Partitions(table_name, result_id) ==
    {r.array_name : r \in {x \in tables[table_name] : x.result_id = result_id}}

\* the rows of array i of the metric are stored under the label of index i
ArrayStored(result, metric, i, array_names, result_id) ==
    \A rec \in Records(ExpectedFrames(result, metric)[i + 1], MetricTable(metric),
                       result_id, ArrayNamesGet(array_names, i)) :
        \E r \in tables[MetricTable(metric)] :
            /\ r.result_id = rec.result_id
            /\ r.utc_time = rec.utc_time
            /\ r.array_name = rec.array_name
            /\ r.vals = rec.vals

PartitionsOfSave(c) ==
    \A metric \in TupleMetrics(call[c].result) :
        LET n == Len(call[c].result[metric].items) IN
        /\ Cardinality(Partitions(MetricTable(metric), ret[c].value)) = n
        /\ \A i \in 0..(n - 1) :
              ArrayStored(call[c].result, metric, i, call[c].array_names, ret[c].value)

ReturnedViewSaves ==
    {c \in Conns : /\ call[c].op = "save"
                   /\ pc[c] = "return"
                   /\ ret[c].kind = "result_id"
                   /\ call[c].array_names \in ViewNames(call[c].result.arrays)}

\* with labels that differ from array to array every array has its partition
DistinctLabelsPartitioned ==
    \A c \in ReturnedViewSaves :
        call[c].array_names # ViewSameNames(call[c].result.arrays) => PartitionsOfSave(c)

\* C22: a metric saved as a tuple of N per-array tables is stored in exactly
\* N array_name partitions, array i under array_names[str(i)], for every
\* array_names map the views can build; no array's rows are discarded in
\* favour of another array's.
C22_OnePartitionPerArray == \A c \in ReturnedViewSaves : PartitionsOfSave(c)

(***************************************************************************)
(* ac and aoi in the shared ac_aoi table.                                    *)
(***************************************************************************)
\* returned saves whose result has an ac that is inserted and an aoi
ReturnedSavesWithAcAndAoi ==
    {c \in Conns : /\ call[c].op = "save"
                   /\ pc[c] = "return"
                   /\ ret[c].kind = "result_id"
                   /\ call[c].array_names \in
                         ViewNames(call[c].result.arrays) \cup {ViewNoConfigNames}
                   /\ Present(call[c].result, "ac")
                   /\ AcCall(call[c].result.ac) # <<>>
                   /\ Present(call[c].result, "aoi")}

\* the persisted row of (result_id, t, label) holds the given value in column
Holds(result_id, t, label, column, v) ==
    IsMissing(v) \/
    \E r \in tables["ac_aoi"] :
        /\ r.result_id = result_id
        /\ r.utc_time = t
        /\ r.array_name = label
        /\ r.vals[column] = v

AcValuesStored(c) ==
    \A t \in Times :
        Holds(ret[c].value, t, ArrayNamesGet(call[c].array_names, 0), "ac",
              AcCall(call[c].result.ac)[1].df.cols["ac"][t])

AoiValuesStored(c) ==
    LET dfs == AoiCall(call[c].result.aoi, call[c].result.aoi_modifier)[1].df.items IN
    \A i \in 1..Len(dfs) : \A t \in Times : \A column \in {"aoi", "aoi_modifier"} :
        Holds(ret[c].value, t, ArrayNamesGet(call[c].array_names, i - 1), column,
              dfs[i].cols[column][t])

\* the first of the two inserts is kept
AcOfSharedTableStored == \A c \in ReturnedSavesWithAcAndAoi : AcValuesStored(c)

\* C23: a save that writes both ac and aoi stores both: for every timestamp
\* and array the ac_aoi row holds the ac value and the aoi and aoi_modifier
\* values given for it.
C23_AcAndAoiBothStored ==
    \A c \in ReturnedSavesWithAcAndAoi : AcValuesStored(c) /\ AoiValuesStored(c)

(***************************************************************************)
(* The order of what fetch returns.                                          *)
(***************************************************************************)
FetchedDicts ==
    {c \in Conns : call[c].op = "fetch" /\ pc[c] = "return" /\ ret[c].kind = "dict"}

FetchedTables(c, k) ==
    LET v == ret[c].value[FetchKeys[k]]
    IN IF v.kind = "None" THEN <<>> ELSE AsTuple(v)

\* the table is the array_name group `name` of the committed rows
IsGroupOf(frame, table_name, result_id, name) ==
    \A col \in DOMAIN frame.cols : \A t \in DOMAIN frame.cols[col] :
        \E r \in tables[table_name] :
            /\ r.result_id = result_id
            /\ r.array_name = name
            /\ r.utc_time = t
            /\ SameValue(r.vals[col], frame.cols[col][t])

AscendingNames(names) ==
    \A i, j \in DOMAIN names : i < j => NameRank(names[i]) < NameRank(names[j])

TableShape(frame) ==
    /\ \A i, j \in DOMAIN frame.index : i < j => frame.index[i] < frame.index[j]
    /\ {frame.index[i] : i \in DOMAIN frame.index} =
          UNION {DOMAIN frame.cols[col] : col \in DOMAIN frame.cols}
    /\ DOMAIN frame.cols \cap {"result_id", "array_name", "utc_time"} = {}

\* C24: a metric with several array_name groups is fetched as a tuple in
\* ascending order of array_name, whatever order the arrays were saved in;
\* every table has utc_time as its index, ascending, and neither a result_id
\* nor an array_name column.
C24_TupleInAscendingArrayName ==
    \A c \in FetchedDicts : \A k \in 1..Len(TableNames) :
        LET frames == FetchedTables(c, k)
            groups == Partitions(TableNames[k], call[c].result_id) \ {NullName}
        IN /\ \A j \in 1..Len(frames) : TableShape(frames[j])
           /\ Len(frames) > 1 =>
                 \E names \in [1..Len(frames) -> groups] :
                    /\ AscendingNames(names)
                    /\ \A j \in 1..Len(frames) :
                          IsGroupOf(frames[j], TableNames[k], call[c].result_id, names[j])

\* arrays saved under labels in descending order: the first table of the
\* fetched tuple holds the values of the array saved second
C24_Witness ==
    \E c \in FetchedDicts :
        LET v == ret[c].value["cell_temperature"] IN
        /\ v.kind = "tuple"
        /\ v.items[1].cols["temperature"][2] = SampleValue(1, 1, 2, "none")
        /\ v.items[1].index = <<1, 2>>

(***************************************************************************)
(* modelchain_result_view: fetch, normalization and analysis of one result, *)
(* with the Django cache in front of the first two.  The chart functions    *)
(* between normalization and analysis are not modelled: a request that gets *)
(* past normalization goes on to the analyzers.                              *)
(***************************************************************************)
\* the DatabaseConnection() the view opens for its fetch and closes after it
ViewConn == "c2"

Miss == [kind |-> "miss"]
EmptyCache == [id \in 1..MaxSaves |-> [data |-> Miss, norm |-> Miss]]
ViewIdle == [op |-> "modelchain_result_view", result_id |-> 0, stage |-> "none",
             raised |-> "none", cache |-> EmptyCache]

\* `if not x` for a cache.get(key): a miss, a stored None and an empty dict
\* are all falsy
Falsy(x) == x.kind \in {"miss", "None"}

\* a fetched table in the positional form of the analyzers' tables
Positional(frame) ==
    IndexedFrame([col \in DOMAIN frame.cols |->
                     [i \in DOMAIN frame.index |-> frame.cols[col][frame.index[i]]]],
                 frame.index)

AsPandas(v) ==
    IF v.kind = "tuple" THEN TupleOf([j \in DOMAIN v.items |-> Positional(v.items[j])])
    ELSE IF v.kind = "DataFrame" THEN Positional(v)
    ELSE v

\* the keys of simulation_data the view normalizes, in the order of the source
NormalizedKeys == <<"dc", "ac_aoi", "irradiance", "weather", "cell_temperature">>

\* normalized_data = {...}: None is not subscriptable, and the first
\* normalize_pv_tuple call that raises ends the request
Normalization(data) ==
    IF data.kind = "None" THEN Failed("TypeError")
    ELSE LET done == [i \in DOMAIN NormalizedKeys |->
                         normalize_pv_tuple(AsPandas(data.value[NormalizedKeys[i]]))]
             failing == {i \in DOMAIN done : done[i].raised # "none"}
         IN IF failing # {}
            THEN Failed(done[CHOOSE i \in failing : \A j \in failing : i <= j].raised)
            ELSE Completed([kind |-> "dict",
                            value |-> [i \in DOMAIN done |-> done[i].value]])

\* Analyzer(simulation_data) ... calculate_score(): the reads of the analyzers
Analysis(data) ==
    IF "ac_aoi" \notin DOMAIN data.value \/ data.value["ac_aoi"].kind # "DataFrame"
    THEN Failed("TypeError")
    ELSE IF ~AnalyzersComplete(data.value) THEN Failed("KeyError")
    ELSE Completed(data)

modelchain_result_view(result_id) ==
    /\ report.op = "modelchain_result_view"
    /\ LET entry == report.cache[result_id]
           fetched == IF Falsy(entry.data) THEN FetchOutcome(ViewConn, result_id)
                      ELSE entry.data
           stored == IF Falsy(entry.data) THEN fetched ELSE entry.data
           normalized == IF Falsy(entry.norm) THEN Normalization(fetched)
                         ELSE Completed(entry.norm)
       IN IF fetched.kind = "exception"
          THEN /\ report' = [report EXCEPT !.result_id = result_id, !.stage = "fetch",
                                           !.raised = fetched.name]
               /\ simulation_data' = NoSimulation
          ELSE /\ simulation_data' = [k \in {"fetched"} |-> fetched]
               /\ IF normalized.raised # "none"
                  THEN report' = [report EXCEPT !.result_id = result_id,
                                                !.stage = "normalization",
                                                !.raised = normalized.raised,
                                                !.cache[result_id].data = stored]
                  ELSE report' = [report EXCEPT
                                     !.result_id = result_id,
                                     !.stage = "analysis",
                                     !.raised = Analysis(fetched).raised,
                                     !.cache[result_id] = [data |-> stored,
                                                           norm |-> normalized.value]]
    /\ UNCHANGED store_vars

InitView ==
    /\ InitDatabase
    /\ requests \in {{r} : r \in RoundTripRequests}
    /\ simulation_data = NoSimulation
    /\ report = ViewIdle

NextView ==
    \/ \E c \in SeqConns : Step(c)
    \/ \E result_id \in ResultIds : modelchain_result_view(result_id)

SpecView == InitView /\ [][NextView]_vars

\* requests of the view that have ended, with what the view had fetched
ViewEnded == report.op = "modelchain_result_view" /\ report.stage # "none"
ViewFetched == simulation_data["fetched"]

\* a metric table without rows for the result_id is None in the fetched dict
EmptyTableFetchedAsNone ==
    (ViewEnded /\ report.stage # "fetch" /\ ViewFetched.kind = "dict") =>
        \A k \in 1..Len(TableNames) :
            ({r \in tables[TableNames[k]] : r.result_id = report.result_id} = {})
            => ViewFetched.value[FetchKeys[k]].kind = "None"

\* C25: a metric without rows is None in the fetched dict, and the view's
\* pipeline (normalize_pv_tuple, then the analyzers) takes the None metric
\* as no data and completes without raising.
C25_NoneMetricThroughPipeline ==
    /\ EmptyTableFetchedAsNone
    /\ (/\ ViewEnded
        /\ report.stage # "fetch"
        /\ ViewFetched.kind = "dict"
        /\ \E k \in 1..Len(FetchKeys) : ViewFetched.value[FetchKeys[k]].kind = "None")
       => report.raised = "none"

\* C26: when the fetch returns None the view neither normalizes, builds
\* charts nor analyses, and does not put the missing result into the cache.
C26_ViewStopsOnMissingResult ==
    (ViewEnded /\ report.stage # "fetch" /\ ViewFetched.kind = "None") =>
        /\ report.stage = "not_found"
        /\ report.raised = "none"
        /\ report.cache[report.result_id].data = Miss

(***************************************************************************)
(* The compound metadata fields through save and fetch.                      *)
(***************************************************************************)
WithMetadata(result, albedo, spectral_modifier, tracking) ==
    [result EXCEPT !.albedo = albedo, !.spectral_modifier = spectral_modifier,
                   !.tracking = tracking]

\* a one-array result with a scalar or per-array albedo, with or without a
\* spectral modifier and a tracking config
MetadataRequests ==
    {Request(WithMetadata(MkResult(1, "Series", CoreMetrics, "none", FALSE),
                          albedo, spectral_modifier, tracking),
             ViewNoConfigNames) :
        <<albedo, spectral_modifier, tracking>> \in
            {"scalar", "tuple"} \X {"None", "modifier"} \X {"None", "config"}}

InitMetadata ==
    /\ InitDatabase
    /\ requests \in {{r} : r \in MetadataRequests}
    /\ simulation_data = NoSimulation
    /\ report = NoReport

SpecMetadata == InitMetadata /\ [][NextRoundTrip]_vars

\* the field comes back as the Python value that was saved
ComesBack(field, saved, fetched) == fetched.meta[field] = PyValue(saved[field])

\* tracking is decoded on fetch, and a NULL tracking is None
TrackingRoundTrips ==
    \A c \in FetchedSaved : \A req \in requests :
        ComesBack("tracking", req.result, ret[c].value)

\* C27: a per-array albedo tuple, a spectral_modifier and a tracking config
\* saved JSON-encoded come back from fetch in their structured form, and a
\* tracking or spectral_modifier that was None comes back as None.
C27_CompoundMetadataRoundTrips ==
    \A c \in FetchedSaved : \A req \in requests :
        /\ ComesBack("tracking", req.result, ret[c].value)
        /\ ComesBack("spectral_modifier", req.result, ret[c].value)
        /\ req.result.albedo = "tuple" => ComesBack("albedo", req.result, ret[c].value)

(***************************************************************************)
(* The rating next to the reported overall score.                            *)
(***************************************************************************)
AnalyzerScored ==
    /\ report.op = "Analyzer.calculate_score"
    /\ report.out.raised = "none"
    /\ report.out.value.overall_score.k = "num"

\* the band of a score given in tenths
BandOfReportedScore(tenths) ==
    IF tenths >= 90 * PercentScale THEN "Excellent"
    ELSE IF tenths >= 80 * PercentScale THEN "Very Good"
    ELSE IF tenths >= 70 * PercentScale THEN "Good"
    ELSE IF tenths >= 60 * PercentScale THEN "Fair"
    ELSE "Poor"

\* C28: the rating in the dict of Analyzer.calculate_score is the band of the
\* one-decimal overall_score reported next to it, also for a score that
\* rounds up onto a band boundary.
C28_RatingAgreesWithReportedScore ==
    AnalyzerScored =>
        report.out.value.rating = BandOfReportedScore(report.out.value.overall_score.v)

(***************************************************************************)
(* Committed rows stay as they are.                                          *)
(***************************************************************************)
\* no committed row is removed, and none with the key of a committed row or
\* the result_id of a committed metadata row is put next to it
RowsKept ==
    /\ modelchain_results \subseteq modelchain_results'
    /\ \A m \in modelchain_results : \A m2 \in modelchain_results' :
          m2.result_id = m.result_id => m2 = m
    /\ \A tn \in TableSet :
          /\ tables[tn] \subseteq tables'[tn]
          /\ \A r \in tables[tn] : \A r2 \in tables'[tn] :
                (r.array_name # NullName /\ SameKey(r, r2)) => r2 = r

\* C29: once committed, the rows of a result_id are immutable: no later save
\* or fetch, for the same or another result, updates, overwrites or deletes
\* a metadata or metric row; the metric tables only grow.
C29_CommittedRowsImmutable == [][RowsKept]_vars

\* a second save has committed next to the rows of the first, and a fetch
\* has returned a result
C29_Witness ==
    /\ Cardinality({r.result_id : r \in tables["ac_aoi"]}) > 1
    /\ Cardinality({m.result_id : m \in modelchain_results}) > 1
    /\ \E c \in Conns : call[c].op = "fetch" /\ pc[c] = "return" /\ ret[c].kind = "dict"

(***************************************************************************)
(* fetch_openmeteo_data and fetch_air_quality_data: the location lookup in  *)
(* front of the reads.  Coordinates are in units of 0.00005 degrees.         *)
(***************************************************************************)
\* ABS(latitude - :lat) < 0.0001
Tolerance == 2

Coordinates == {0, 1, 2, 4}

Row(id, latitude, longitude) ==
    [kind |-> "Row", id |-> id, latitude |-> latitude, longitude |-> longitude]

\* contents of weather_location the lookups run against
LocationTables == SUBSET {Row(1, 0, 0), Row(2, 1, 1), Row(3, 4, 0)}

Abs(x) == IF x < 0 THEN 0 - x ELSE x

\* SELECT * FROM weather_location WHERE ... LIMIT 1, fetchone(): one of the
\* rows within the tolerance, in no stated order, or None
LocationQuery(rows, lat, lon) ==
    LET near == {r \in rows : /\ Abs(r.latitude - lat) < Tolerance
                              /\ Abs(r.longitude - lon) < Tolerance}
    IN IF near = {} THEN {NoneValue} ELSE near

\* the statements after fetchone(): dict(location._mapping) comes first and
\* needs a row; then `if not location: raise ValueError`; then one read_sql
\* per table of `reads`
AfterLocationQuery(location, reads) ==
    IF location.kind = "None"
    THEN [raised |-> "AttributeError", tables_read |-> 0]
    ELSE IF location.kind # "Row"
    THEN [raised |-> "ValueError", tables_read |-> 0]
    ELSE [raised |-> "none", tables_read |-> Len(reads), value |-> location]

OpenmeteoTables == <<"weather_current", "weather_hourly", "weather_daily">>
AirQualityTables == <<"air_quality_current", "air_quality_hourly">>

FetchOpenmeteoData ==
    /\ \E location \in LocationQuery(simulation_data.weather_location,
                                      simulation_data.lat, simulation_data.lon) :
          report' = [op |-> "DataManager.fetch_openmeteo_data",
                     out |-> AfterLocationQuery(location, OpenmeteoTables)]
    /\ UNCHANGED <<store_vars, simulation_data>>

FetchAirQualityData ==
    /\ \E location \in LocationQuery(simulation_data.weather_location,
                                      simulation_data.lat, simulation_data.lon) :
          report' = [op |-> "DataManager.fetch_air_quality_data",
                     out |-> AfterLocationQuery(location, AirQualityTables)]
    /\ UNCHANGED <<store_vars, simulation_data>>

InitWeather ==
    /\ InitDatabase
    /\ requests = {}
    /\ simulation_data \in [weather_location : LocationTables,
                            lat : Coordinates, lon : Coordinates]
    /\ report = NoReport

NextWeather == FetchOpenmeteoData \/ FetchAirQualityData

SpecWeather == InitWeather /\ [][NextWeather]_vars

WeatherFetched ==
    report.op \in {"DataManager.fetch_openmeteo_data", "DataManager.fetch_air_quality_data"}

NoLocationNear ==
    \A r \in simulation_data.weather_location :
        \/ Abs(r.latitude - simulation_data.lat) >= Tolerance
        \/ Abs(r.longitude - simulation_data.lon) >= Tolerance

\* a call without a location in reach raises before any table is read
MissingLocationReadsNothing ==
    (WeatherFetched /\ NoLocationNear) =>
        report.out.raised # "none" /\ report.out.tables_read = 0

\* C30: when no weather_location row lies within 0.0001 degrees of the
\* given latitude and longitude, fetch_openmeteo_data and
\* fetch_air_quality_data raise ValueError and no other exception, before
\* any weather or air-quality table is read.
C30_MissingLocationRaisesValueError ==
    (WeatherFetched /\ NoLocationNear) =>
        report.out.raised = "ValueError" /\ report.out.tables_read = 0

====
